---- MODULE Spec2Model ----
(***************************************************************************)
(* A model of the pre-grading pipeline of AI-Pre-Grader (src/main.py), of  *)
(* its text-extraction helpers (src/main.py and src/pregrade_agent.py) and *)
(* of its severity heuristic.                                              *)
(*                                                                         *)
(* Texts are sequences of symbols.  A symbol is a one-character string, or *)
(* a fixed literal of the source (a marker such as "[UNREADABLE_PAGE] ..." *)
(* that the code emits as a whole).                                        *)
(***************************************************************************)
EXTENDS Integers, Sequences, FiniteSets, TLC

VARIABLES
    OCR_AVAILABLE,  \* module global: whether pytesseract could be imported
    sev_text,       \* _count_severities: the text handed to it
    sev_out,        \* _count_severities: [called, counts], its result once called
    ext_in,         \* extraction: the file (and page limit) handed to it
    ext_out,        \* extraction: [fn, res], the function called and what it did
    pc,             \* main: the statement main() is at
    exit_code,      \* main: the process's exit status, None while running
    root_ok,        \* file system: hw_root exists and is a directory
    max_async,      \* command line: --max-async
    ps_file,        \* file system: the problem set at ps_path, None if absent
    sol_file,       \* file system: the solutions at sol_path, None if absent
    class_info,     \* command line and file system: the --class path, None if omitted
    out_arg,        \* command line: --out, None if omitted
    listing,        \* file system: the top-level entries of hw_root
    entries,        \* _discover_submission_units: the sorted, filtered entries
    idx,            \* _discover_submission_units: 1-based position of the for loop
    alias_counter,  \* _discover_submission_units: alias_counter
    units,          \* _discover_submission_units: units
    norm_dirs,      \* file system: students_root, normalized_dir -> its files
    sol_effective,  \* main: sol_effective, None or the solution document
    gen_calls,      \* generation capability: calls issued
    synth_outcome,  \* synthesize_solution_if_missing: how it ended, "none" before
    warnings,       \* main: warnings
    artifacts,      \* file system: the three artifacts under out_dir
    tpc,            \* per task of _grade_one_alias: where the coroutine is
    sem_value,      \* asyncio.Semaphore: free slots
    sem_waiters,    \* asyncio.Semaphore: tasks blocked in acquire, oldest first
    result,         \* per task: what the coroutine returned or raised
    call_end,       \* analysis capability, per task: "none", "returned", "raised"
    calls,          \* analysis capability, per task: calls issued
    prompt,         \* analysis capability, per task: the prompt of its call
    done_order,     \* the tasks in the order they finished
    results,        \* main: results, the list asyncio.run returned
    assignment_title,  \* app.py global: the selected assignment, "" if none
    status_message,    \* app.py global: status_message
    uploaded_files,    \* app.py global: uploaded_files, category -> stored names
    max_concurrent,    \* app.py global: max_concurrent
    nitpickiness_level,  \* app.py global: nitpickiness_level
    grading_notes,     \* app.py global: grading_notes
    appdata,           \* app.py file system: APPDATA_DIR, title -> assignment folder
    pipeline,          \* app.py: _run_grading_pipeline as shipped, or replaced
    last_outcomes,     \* app.py: what the pipeline returned to the last grading
    request,           \* app.py: the last request, its route and JSON value
    response,          \* app.py: the last request's response
    folder_arg,        \* command line: --folder, None outside the root's resolution
    hw_root,           \* main: hw_root, the resolved homework root, None before
    normalized_dir,    \* _gather_submission_files: the files under its argument
    files              \* _gather_submission_files: the list returned, None before

sevVars == <<sev_text, sev_out>>

extVars == <<ext_in, ext_out>>

cfgVars == <<root_ok, max_async, ps_file, sol_file, class_info, out_arg>>

discVars == <<entries, idx, alias_counter, units, norm_dirs>>

synthVars == <<sol_effective, gen_calls, synth_outcome, warnings>>

taskVars ==
    <<tpc, sem_value, sem_waiters, result, call_end, calls, prompt, done_order, results>>

rootVars == <<folder_arg, hw_root>>

gatherVars == <<normalized_dir, files>>

runVars ==
    <<pc, exit_code, rootVars, gatherVars, cfgVars, listing, discVars, synthVars, artifacts, taskVars>>

appVars ==
    <<assignment_title, status_message, uploaded_files, max_concurrent, nitpickiness_level,
      grading_notes, appdata, pipeline, last_outcomes, request, response>>

vars == <<OCR_AVAILABLE, sevVars, extVars, appVars, runVars>>

----------------------------------------------------------------------------
(* Characters and str methods                                              *)

UpperLetters ==
    <<"A","B","C","D","E","F","G","H","I","J","K","L","M",
      "N","O","P","Q","R","S","T","U","V","W","X","Y","Z">>

LowerLetters ==
    <<"a","b","c","d","e","f","g","h","i","j","k","l","m",
      "n","o","p","q","r","s","t","u","v","w","x","y","z">>

Digits == <<"0","1","2","3","4","5","6","7","8","9">>

Range(f) == {f[i] : i \in DOMAIN f}

\* str.lower() on one character: only cased letters change.
LowerChar(c) ==
    IF \E i \in DOMAIN UpperLetters : UpperLetters[i] = c
    THEN LowerLetters[CHOOSE i \in DOMAIN UpperLetters : UpperLetters[i] = c]
    ELSE c

\* str.lower()
Lower(t) == [i \in DOMAIN t |-> LowerChar(t[i])]

\* The characters the regex class \w matches (and \b separates from the rest).
IsWordChar(c) ==
    c \in Range(UpperLetters) \cup Range(LowerLetters) \cup Range(Digits) \cup {"_"}

\* The characters str.strip() and str.isspace() treat as white space.
IsSpace(c) == c \in {" ", "\n", "\t"}

RECURSIVE LStrip(_)
LStrip(t) ==
    IF t # <<>> /\ IsSpace(Head(t)) THEN LStrip(Tail(t)) ELSE t

RECURSIVE RStrip(_)
RStrip(t) ==
    IF t # <<>> /\ IsSpace(t[Len(t)]) THEN RStrip(SubSeq(t, 1, Len(t) - 1)) ELSE t

\* str.strip()
Strip(t) == RStrip(LStrip(t))

\* str.startswith(prefix)
StartsWith(t, prefix) ==
    /\ Len(t) >= Len(prefix)
    /\ SubSeq(t, 1, Len(prefix)) = prefix

RECURSIVE Concat(_)
\* "".join(parts)
Concat(parts) ==
    IF parts = <<>> THEN <<>> ELSE Head(parts) \o Concat(Tail(parts))

----------------------------------------------------------------------------
(* _count_severities (src/main.py 414-422)                                 *)

WORD_MAJOR == <<"m","a","j","o","r">>
WORD_MODERATE == <<"m","o","d","e","r","a","t","e">>

\* A plausible slip: text.count(word), with no word boundary.
MatchesAt_substring(word, t, pos) ==
    /\ pos + Len(word) - 1 <= Len(t)
    /\ SubSeq(t, pos, pos + Len(word) - 1) = word

\* Whether the pattern \bword\b matches t at position pos (word is made of
\* word characters, so \b asks for a non-word neighbour or the text's end).
MatchesAt(word, t, pos) ==
    /\ pos + Len(word) - 1 <= Len(t)
    /\ SubSeq(t, pos, pos + Len(word) - 1) = word
    /\ (pos = 1 \/ ~IsWordChar(t[pos - 1]))
    /\ (pos + Len(word) - 1 = Len(t) \/ ~IsWordChar(t[pos + Len(word)]))

RECURSIVE FindAllFrom(_, _, _)
\* len(re.findall(r"\bword\b", t)): the scan goes left to right and resumes
\* after the end of each match.
FindAllFrom(word, t, pos) ==
    IF pos > Len(t) THEN 0
    ELSE IF MatchesAt(word, t, pos)
         THEN 1 + FindAllFrom(word, t, pos + Len(word))
         ELSE FindAllFrom(word, t, pos + 1)

_count_severities(text) ==
    LET t == Lower(text)
        major == FindAllFrom(WORD_MAJOR, t, 1)
        moderate == FindAllFrom(WORD_MODERATE, t, 1)
    IN  <<major, moderate>>

----------------------------------------------------------------------------
(* Values: results and exceptions                                          *)

\* A call that returned value v.
Returned(v) == [raised |-> FALSE, value |-> v]

\* A call that raised an exception of type etype whose str() is msg.
Raised(etype, msg) == [raised |-> TRUE, etype |-> etype, msg |-> msg]

\* Optional[int]: None is <<>>, the integer n is <<n>>.
None == <<>>

Some(n) == <<n>>

RECURSIVE IntStr(_)
\* str(n) / f"{n}" for n >= 0
IntStr(n) ==
    IF n < 10 THEN <<Digits[n + 1]>>
    ELSE IntStr(n \div 10) \o <<Digits[(n % 10) + 1]>>

Min(a, b) == IF a <= b THEN a ELSE b

Max(a, b) == IF a >= b THEN a ELSE b

----------------------------------------------------------------------------
(* OCR and text extraction (src/main.py 198-249)                           *)
(*                                                                         *)
(* An OCR behaviour is what pytesseract.image_to_string does on an image:  *)
(* [raises |-> TRUE, msg |-> ...] or [raises |-> FALSE, text |-> ...].     *)
(* A page is [text, raster_ok, ocr]: its embedded text layer, whether      *)
(* get_pixmap succeeds, and the OCR behaviour on its raster.               *)
(* A document is [opens, pages, name]; an image is [opens, ocr, name].     *)

UNREADABLE_TAG == <<"[","U","N","R","E","A","D","A","B","L","E","]">>

WARN_NOT_AVAILABLE_TAG ==
    <<"[","W","A","R","N","]"," ","O","C","R"," ","n","o","t"," ",
      "a","v","a","i","l","a","b","l","e">>

UNREADABLE_PAGE == <<"[UNREADABLE_PAGE]", " No extractable text; OCR unavailable/failed.">>

PA_UNREADABLE_PAGE == <<"[UNREADABLE_PAGE]", " No extractable text; OCR unavailable or failed.">>

\* _ocr_image (src/main.py 204-210)
_ocr_image(ocr, available) ==
    IF ~available THEN UNREADABLE_TAG \o <<" OCR not available.">>
    ELSE IF ocr.raises THEN UNREADABLE_TAG \o <<" OCR failed: ">> \o ocr.msg
    ELSE ocr.text

\* _ocr_image_pil (src/pregrade_agent.py 60-67)
_ocr_image_pil(ocr, available) ==
    IF ~available
    THEN WARN_NOT_AVAILABLE_TAG \o <<"; install pytesseract and Tesseract.">>
    ELSE IF ocr.raises THEN <<"[","W","A","R","N","]"," ","O","C","R"," failed: ">> \o ocr.msg
    ELSE ocr.text

\* f"\n--- PAGE {i+1}/{total} ---\n{txt}\n"
PagePart(pageno, total, txt) ==
    <<"\n--- PAGE ">> \o IntStr(pageno) \o <<"/">> \o IntStr(total)
        \o <<" ---\n">> \o txt \o <<"\n">>

\* A plausible slip: the OCR result is only tested for being non-empty, so a
\* failure marker of _ocr_image passes for page text.
ExtractPage_no_marker_test(p, available) ==
    LET txt == Strip(p.text)
    IN  IF Len(txt) < 10
        THEN IF ~p.raster_ok
             THEN Raised("RuntimeError", <<"cannot render page">>)
             ELSE LET ocr_txt == _ocr_image(p.ocr, available)
                  IN  IF Strip(ocr_txt) # <<>>
                      THEN Returned([txt |-> ocr_txt, ocr |-> 1])
                      ELSE Returned([txt |-> UNREADABLE_PAGE, ocr |-> 0])
        ELSE Returned([txt |-> txt, ocr |-> 0])

\* One iteration of the page loop of main.py 225-236 on page p: the page's
\* text and whether OCR supplied it, or the exception get_pixmap raised.
ExtractPage(p, available) ==
    LET txt == Strip(p.text)
    IN  IF Len(txt) < 10
        THEN IF ~p.raster_ok
             THEN Raised("RuntimeError", <<"cannot render page">>)
             ELSE LET ocr_txt == _ocr_image(p.ocr, available)
                  IN  IF ~StartsWith(ocr_txt, UNREADABLE_TAG) /\ Strip(ocr_txt) # <<>>
                      THEN Returned([txt |-> ocr_txt, ocr |-> 1])
                      ELSE Returned([txt |-> UNREADABLE_PAGE, ocr |-> 0])
        ELSE Returned([txt |-> txt, ocr |-> 0])

\* The same iteration in pregrade_agent.py 92-104.
PaExtractPage(p, available) ==
    LET txt == Strip(p.text)
    IN  IF Len(txt) < 10
        THEN IF ~p.raster_ok
             THEN Raised("RuntimeError", <<"cannot render page">>)
             ELSE LET ocr_txt == _ocr_image_pil(p.ocr, available)
                  IN  IF Strip(ocr_txt) # <<>> /\ ~StartsWith(ocr_txt, WARN_NOT_AVAILABLE_TAG)
                      THEN Returned([txt |-> ocr_txt, ocr |-> 1])
                      ELSE Returned([txt |-> PA_UNREADABLE_PAGE, ocr |-> 0])
        ELSE Returned([txt |-> txt, ocr |-> 0])

\* The one element of a one-element set: { F(x) : x \in {e} } hands e to F
\* as a value computed once.
Only(S) == CHOOSE v \in S : TRUE

RECURSIVE PageLoop(_, _, _, _, _, _, _)
\* for i in range(limit): ... parts.append(...): i is the 0-based index of
\* the next page; pa chooses the pregrade_agent.py body.
PageLoop(doc, limit, i, parts, ocr_pages, available, pa) ==
    IF i >= limit
    THEN Returned(<<Concat(parts), Len(doc.pages), ocr_pages>>)
    ELSE Only({ IF r.raised THEN r
                ELSE PageLoop(doc, limit, i + 1,
                              Append(parts, PagePart(i + 1, Len(doc.pages), r.value.txt)),
                              ocr_pages + r.value.ocr, available, pa) :
                r \in { IF pa THEN PaExtractPage(doc.pages[i + 1], available)
                        ELSE ExtractPage(doc.pages[i + 1], available) } })

\* A plausible slip: the page limit is not applied.
PageLimit_unlimited(total, max_pages) == total

\* limit = min(total, max_pages) if max_pages is not None else total
PageLimit(total, max_pages) ==
    IF max_pages # None THEN Min(total, max_pages[1]) ELSE total

\* extract_pdf_text_with_ocr_fallback (src/main.py 212-239)
extract_pdf_text_with_ocr_fallback(doc, max_pages, available) ==
    IF ~doc.opens THEN Raised("FileDataError", <<"cannot open document">>)
    ELSE PageLoop(doc, PageLimit(Len(doc.pages), max_pages), 0, <<>>, 0, available, FALSE)

\* extract_pdf_text_with_ocr_fallback (src/pregrade_agent.py 79-107)
pa_extract_pdf_text_with_ocr_fallback(doc, max_pages, available) ==
    IF ~doc.opens THEN Raised("FileDataError", <<"cannot open document">>)
    ELSE PageLoop(doc, PageLimit(Len(doc.pages), max_pages), 0, <<>>, 0, available, TRUE)

UNREADABLE_IMAGE(name) ==
    <<"[UNREADABLE_IMAGE] ">> \o name \o <<": OCR unavailable or failed.">>

ERROR_OPEN_IMAGE(name) ==
    <<"[ERROR] Failed to open image ">> \o name \o <<": ">> \o <<"cannot identify image file">>

\* A plausible slip: the OCR result is returned without the emptiness and
\* failure-marker test.
extract_image_text_unchecked(img, available) ==
    IF ~img.opens THEN Returned(ERROR_OPEN_IMAGE(img.name))
    ELSE Returned(_ocr_image(img.ocr, available))

\* extract_image_text (src/main.py 241-249)
extract_image_text(img, available) ==
    IF ~img.opens THEN Returned(ERROR_OPEN_IMAGE(img.name))
    ELSE LET ocr_txt == _ocr_image(img.ocr, available)
         IN  IF Strip(ocr_txt) = <<>> \/ StartsWith(ocr_txt, UNREADABLE_TAG)
             THEN Returned(UNREADABLE_IMAGE(img.name))
             ELSE Returned(ocr_txt)

PA_UNREADABLE_IMAGE(name) ==
    <<"[UNREADABLE_IMAGE] ">> \o name \o <<": OCR unavailable or produced no text.">>

PA_ERROR_OPEN_IMAGE(name) ==
    <<"[ERROR] Failed to open image: ">> \o name \o <<": ">> \o <<"cannot identify image file">>

\* extract_image_text (src/pregrade_agent.py 110-119)
pa_extract_image_text(img, available) ==
    IF ~img.opens THEN Returned(PA_ERROR_OPEN_IMAGE(img.name))
    ELSE LET ocr_txt == _ocr_image_pil(img.ocr, available)
         IN  IF Strip(ocr_txt) = <<>> \/ StartsWith(ocr_txt, WARN_NOT_AVAILABLE_TAG)
             THEN Returned(PA_UNREADABLE_IMAGE(img.name))
             ELSE Returned(ocr_txt)

----------------------------------------------------------------------------
(* The severity heuristic on its own: a text is drawn, then counted.       *)

MaxPieces == 3

T_major == <<"m","a","j","o","r">>
T_Major == <<"M","a","j","o","r">>
T_MAJOR == <<"M","A","J","O","R">>
T_majority == <<"m","a","j","o","r","i","t","y">>
T_moderate == <<"m","o","d","e","r","a","t","e">>
T_Moderate == <<"M","o","d","e","r","a","t","e">>
T_moderately == <<"m","o","d","e","r","a","t","e","l","y">>
T_minor == <<"m","i","n","o","r">>

SevPieces ==
    { T_major, T_Major, T_MAJOR, T_majority, T_moderate, T_Moderate,
      T_moderately, T_minor, <<" ">>, <<"_">>, <<".">>, <<"s">> }

SevTexts ==
    { Concat(ps) : ps \in UNION { [1..n -> SevPieces] : n \in 0..MaxPieces } }

SevIdle ==
    /\ sev_text = <<>>
    /\ sev_out = [called |-> FALSE, counts |-> <<0, 0>>]

ExtIdle ==
    /\ ext_in = [kind |-> "none"]
    /\ ext_out = [fn |-> "none", res |-> Returned(<<>>)]

\* No run of main(): nothing on disk, no process.
NotDispatched ==
    /\ tpc = <<>>
    /\ sem_value = 0
    /\ sem_waiters = <<>>
    /\ result = <<>>
    /\ call_end = <<>>
    /\ calls = <<>>
    /\ prompt = <<>>
    /\ done_order = <<>>
    /\ results = <<>>

NoArtifact == [written |-> FALSE, rows |-> <<>>]

\* No response yet.
NoResponse == [code |-> 0, totalSubmissions |-> 0]

\* An outputs folder that does not exist.
NoOutputs == [exists |-> FALSE, notes |-> {}, summary |-> <<>>]

\* uploaded_files (src/app.py 88-92): its keys.
CATEGORIES == {"solutions", "problems", "submissions"}

\* An assignment folder is [cats, outputs]: per category None or Some(the
\* entries of its folder), and the outputs folder.
NoAssignment == [cats |-> [c \in CATEGORIES |-> None], outputs |-> NoOutputs]

\* APPDATA_DIR / title as it is on disk.
AssignmentDir(title) == IF title \in DOMAIN appdata THEN appdata[title] ELSE NoAssignment

\* The entries of APPDATA_DIR / title / category; none when it is no folder.
CategoryDir(title, category) ==
    IF AssignmentDir(title).cats[category] = None THEN {}
    ELSE AssignmentDir(title).cats[category][1]

\* submissions_dir (line 349) and outputs_dir (line 360) of the selected
\* assignment.
submissions_dir == CategoryDir(assignment_title, "submissions")

outputs_dir == AssignmentDir(assignment_title).outputs

\* A JSON value of a request, or a module global, with its Python type.
\* v is its value as a number (True is 1, False is 0), text its characters.
JsonVal(type, v, text) == [type |-> type, v |-> v, text |-> text]

IntVal(n) == JsonVal("int", n, <<>>)

BoolVal(b) == JsonVal("bool", IF b THEN 1 ELSE 0, <<>>)

StrVal(t) == JsonVal("str", 0, t)

\* JSON null, and what dict.get gives for a key that is missing.
NullVal == JsonVal("null", 0, <<>>)

Request(route, value) == [route |-> route, value |-> value]

NoRequest == Request("none", NullVal)

\* The module globals at import (lines 88-97), nothing under APPDATA_DIR.
GlobalsAtImport ==
    /\ assignment_title = <<>>
    /\ status_message = "Idle"
    /\ uploaded_files = [c \in CATEGORIES |-> <<>>]
    /\ max_concurrent = IntVal(1)
    /\ nitpickiness_level = IntVal(3)
    /\ grading_notes = StrVal(<<>>)

\* The web app as imported: module globals at their initial values.
AppIdle ==
    /\ GlobalsAtImport
    /\ appdata = <<>>
    /\ pipeline = "shipped"
    /\ last_outcomes = <<>>
    /\ request = NoRequest
    /\ response = NoResponse

\* The state of a run before main() has done anything.
NotStarted ==
    /\ exit_code = None
    /\ entries = <<>>
    /\ idx = 1
    /\ alias_counter = 1
    /\ units = <<>>
    /\ norm_dirs = <<>>
    /\ sol_effective = None
    /\ gen_calls = 0
    /\ synth_outcome = "none"
    /\ warnings = <<>>
    /\ artifacts = [anonymization_map |-> NoArtifact,
                    run_manifest |-> NoArtifact,
                    pregrading_results |-> NoArtifact]
    /\ NotDispatched

\* No run of main(): nothing on disk, no process.
RootIdle == folder_arg = None /\ hw_root = None

GatherIdle == normalized_dir = {} /\ files = None

MainIdle ==
    /\ pc = "idle"
    /\ root_ok = FALSE
    /\ max_async = 1
    /\ ps_file = None
    /\ sol_file = None
    /\ class_info = None
    /\ out_arg = None
    /\ listing = {}
    /\ NotStarted

RunIdle == MainIdle /\ RootIdle /\ GatherIdle

InitSev ==
    /\ OCR_AVAILABLE = TRUE
    /\ sev_text \in SevTexts
    /\ sev_out = [called |-> FALSE, counts |-> <<0, 0>>]
    /\ ExtIdle
    /\ AppIdle
    /\ RunIdle

\* major, moderate = _count_severities(agent_output)
CountSeverities ==
    /\ ~sev_out.called
    /\ sev_out' = [called |-> TRUE, counts |-> _count_severities(sev_text)]
    /\ UNCHANGED <<OCR_AVAILABLE, sev_text, extVars, appVars, runVars>>

NextSev == CountSeverities

SpecSev == InitSev /\ [][NextSev]_vars

----------------------------------------------------------------------------
(* The extraction functions on their own: a file is drawn, then extracted  *)
(* by the function of main.py or by its copy in pregrade_agent.py.         *)

MaxPages == 2

OcrRaises == [raises |-> TRUE, msg |-> <<"tesseract failed">>, text |-> <<>>]

OcrText(t) == [raises |-> FALSE, msg |-> <<>>, text |-> t]

OcrGood == OcrText(<<"x","=","1">>)

OcrBehaviours ==
    { OcrRaises, OcrGood, OcrText(<<>>), OcrText(<<" ","\n">>),
      OcrText(UNREADABLE_TAG \o <<" ","x">>),
      OcrText(WARN_NOT_AVAILABLE_TAG \o <<" ","x">>) }

\* Embedded text layers: 10 characters, and 9 characters between white space.
T10 == <<"a","b","c","d","e","f","g","h","i","j">>

T9 == <<" ","a","b","c","d","e","f","g","h","i","\n">>

PageKinds ==
    { [text |-> T10, raster_ok |-> TRUE, ocr |-> OcrGood],
      [text |-> <<>>, raster_ok |-> FALSE, ocr |-> OcrGood],
      [text |-> T9, raster_ok |-> TRUE, ocr |-> OcrGood] }
    \cup { [text |-> <<>>, raster_ok |-> TRUE, ocr |-> o] : o \in OcrBehaviours }

DocName == <<"d",".","p","d","f">>

ImgName == <<"w",".","P","N","G">>

Docs ==
    { [opens |-> FALSE, pages |-> <<>>, name |-> DocName] }
    \cup { [opens |-> TRUE, pages |-> ps, name |-> DocName] :
             ps \in UNION { [1..n -> PageKinds] : n \in 0..MaxPages } }

Images ==
    { [opens |-> o, ocr |-> b, name |-> ImgName] : o \in BOOLEAN, b \in OcrBehaviours }

MaxPagesChoices == { None } \cup { Some(n) : n \in 0..MaxPages }

ExtInputs ==
    { [kind |-> "pdf", file |-> d, max_pages |-> m] : d \in Docs, m \in MaxPagesChoices }
    \cup { [kind |-> "image", file |-> g, max_pages |-> None] : g \in Images }

InitExt ==
    /\ OCR_AVAILABLE \in BOOLEAN
    /\ ext_in \in ExtInputs
    /\ ext_out = [fn |-> "none", res |-> Returned(<<>>)]
    /\ SevIdle
    /\ AppIdle
    /\ RunIdle

\* main.extract_pdf_text_with_ocr_fallback(path, max_pages=...)
CallExtractDocument ==
    /\ ext_in.kind = "pdf"
    /\ ext_out.fn = "none"
    /\ ext_out' = [fn |-> "main",
                   res |-> extract_pdf_text_with_ocr_fallback(
                               ext_in.file, ext_in.max_pages, OCR_AVAILABLE)]
    /\ UNCHANGED <<OCR_AVAILABLE, ext_in, sevVars, appVars, runVars>>

\* pregrade_agent.extract_pdf_text_with_ocr_fallback(path, max_pages=...)
CallPaExtractDocument ==
    /\ ext_in.kind = "pdf"
    /\ ext_out.fn = "none"
    /\ ext_out' = [fn |-> "pa",
                   res |-> pa_extract_pdf_text_with_ocr_fallback(
                               ext_in.file, ext_in.max_pages, OCR_AVAILABLE)]
    /\ UNCHANGED <<OCR_AVAILABLE, ext_in, sevVars, appVars, runVars>>

\* main.extract_image_text(path)
CallExtractImage ==
    /\ ext_in.kind = "image"
    /\ ext_out.fn = "none"
    /\ ext_out' = [fn |-> "main", res |-> extract_image_text(ext_in.file, OCR_AVAILABLE)]
    /\ UNCHANGED <<OCR_AVAILABLE, ext_in, sevVars, appVars, runVars>>

\* pregrade_agent.extract_image_text(path)
CallPaExtractImage ==
    /\ ext_in.kind = "image"
    /\ ext_out.fn = "none"
    /\ ext_out' = [fn |-> "pa", res |-> pa_extract_image_text(ext_in.file, OCR_AVAILABLE)]
    /\ UNCHANGED <<OCR_AVAILABLE, ext_in, sevVars, appVars, runVars>>

NextExt ==
    \/ CallExtractDocument
    \/ CallPaExtractDocument
    \/ CallExtractImage
    \/ CallPaExtractImage

SpecExt == InitExt /\ [][NextExt]_vars

----------------------------------------------------------------------------
(* Names, paths and ordering                                               *)

\* The characters of the model in code-point order: Python compares strings
\* by code point.
CodePoints ==
    <<"\t", "\n", " ", "-", ".">> \o Digits \o <<"=">> \o UpperLetters
        \o <<"[", "]", "_">> \o LowerLetters

CharOrd(c) == CHOOSE i \in DOMAIN CodePoints : CodePoints[i] = c

RECURSIVE StrLess(_, _)
\* s < t on str
StrLess(s, t) ==
    IF t = <<>> THEN FALSE
    ELSE IF s = <<>> THEN TRUE
    ELSE IF Head(s) = Head(t) THEN StrLess(Tail(s), Tail(t))
    ELSE CharOrd(Head(s)) < CharOrd(Head(t))

StrLeq(s, t) == s = t \/ StrLess(s, t)

\* key=lambda p: p.name.lower()
NameKey(e) == Lower(e.name)

RECURSIVE SortedByName(_)
\* sorted(xs, key=lambda p: p.name.lower()) for every order in which the
\* directory scan may have produced xs: the sort is stable, so items with
\* equal keys come out in scan order, which the file system chooses.
SortedByName(S) ==
    IF S = {} THEN { <<>> }
    ELSE UNION { { <<m>> \o rest : rest \in SortedByName(S \ {m}) } :
                 m \in { x \in S : \A y \in S : StrLeq(NameKey(x), NameKey(y)) } }

\* Path.suffix: from the last dot of the name, unless that dot is the name's
\* first or last character.
Suffix(name) ==
    LET dots == { i \in DOMAIN name : name[i] = "." }
    IN  IF dots = {} THEN <<>>
        ELSE LET i == CHOOSE d \in dots : \A d2 \in dots : d2 <= d
             IN  IF i > 1 /\ i < Len(name) THEN SubSeq(name, i, Len(name)) ELSE <<>>

\* f"{alias_counter:03d}"
Pad3(n) ==
    LET s == IntStr(n)
    IN  IF Len(s) >= 3 THEN s
        ELSE IF Len(s) = 2 THEN <<"0">> \o s
        ELSE <<"0", "0">> \o s

----------------------------------------------------------------------------
(* _discover_submission_units (src/main.py 109-155)                        *)
(*                                                                         *)
(* A top-level entry is [name, kind, readable, files]: kind is "file",     *)
(* "dir" or "other" (a broken link, a socket), readable tells whether      *)
(* shutil can copy it, files are the files it holds.  A file is            *)
(* [path, name, opens, pages, ocr]: path is the sequence of directory      *)
(* names above it, the rest is what the extraction functions read.         *)

N_students == <<"s","t","u","d","e","n","t","s">>

N_materials == <<"m","a","t","e","r","i","a","l","s">>

N_outputs == <<"o","u","t","p","u","t","s">>

SKIP_DIRS == { N_materials, N_outputs }

\* _is_hidden (src/main.py 109-110)
_is_hidden(e) ==
    StartsWith(e.name, <<".">>) \/ StartsWith(e.name, <<"_", "_">>)

\* students_root / alias_id
NormDir(alias_id) == <<"students/">> \o alias_id

\* e.resolve()
Resolve(e) == <<"hw_root/">> \o e.name

\* _ensure_dir(norm_dir): mkdir(parents=True, exist_ok=True)
EnsureDir(dirs, d) == IF d \in DOMAIN dirs THEN dirs ELSE (d :> {}) @@ dirs

\* What shutil.copytree(e, norm_dir / e.name) and shutil.copy2(e, norm_dir /
\* e.name) put under norm_dir.
CopiedFiles(e) ==
    IF e.kind = "dir"
    THEN { [f EXCEPT !.path = <<e.name>> \o f.path] : f \in e.files }
    ELSE e.files

CopyInto(dirs, d, e) ==
    [EnsureDir(dirs, d) EXCEPT ![d] = @ \cup CopiedFiles(e)]

SubmissionUnit(alias_id, e, note) ==
    [alias_id |-> alias_id,
     original_name |-> e.name,
     original_path |-> Resolve(e),
     normalized_dir |-> NormDir(alias_id),
     notes |-> note]

\* What no statement of _discover_submission_units touches.
notDisc ==
    <<OCR_AVAILABLE, sevVars, extVars, appVars, rootVars, gatherVars, cfgVars, synthVars,
      artifacts,
      taskVars>>

\* Lines 118-125: the directory is listed, sorted and filtered.
DiscoverBegin ==
    /\ pc = "discover"
    /\ \E sorted \in SortedByName(listing) :
          entries' = SelectSeq(sorted,
                        LAMBDA e : ~_is_hidden(e) /\ Lower(e.name) \notin SKIP_DIRS)
    /\ units' = <<>>
    /\ alias_counter' = 1
    /\ idx' = 1
    /\ pc' = "discover_loop"
    /\ UNCHANGED <<norm_dirs, exit_code, listing, notDisc>>

\* A plausible slip: the alias counter is not advanced after a copy.
DiscoverCopy_same_alias ==
    /\ pc = "discover_loop"
    /\ idx <= Len(entries)
    /\ LET e == entries[idx]
           alias_id == Pad3(alias_counter)
       IN  /\ e.kind \in {"dir", "file"}
           /\ e.readable
           /\ norm_dirs' = CopyInto(norm_dirs, NormDir(alias_id), e)
           /\ units' = Append(units,
                  SubmissionUnit(alias_id, e,
                      IF e.kind = "dir" THEN "multi-file folder" ELSE "single file"))
    /\ alias_counter' = alias_counter
    /\ idx' = idx + 1
    /\ UNCHANGED <<pc, entries, exit_code, listing, notDisc>>

\* The for loop's body on a directory or a file that copies (lines 128-153).
DiscoverCopy ==
    /\ pc = "discover_loop"
    /\ idx <= Len(entries)
    /\ LET e == entries[idx]
           alias_id == Pad3(alias_counter)
       IN  /\ e.kind \in {"dir", "file"}
           /\ e.readable
           /\ norm_dirs' = CopyInto(norm_dirs, NormDir(alias_id), e)
           /\ units' = Append(units,
                  SubmissionUnit(alias_id, e,
                      IF e.kind = "dir" THEN "multi-file folder" ELSE "single file"))
    /\ alias_counter' = alias_counter + 1
    /\ idx' = idx + 1
    /\ UNCHANGED <<pc, entries, exit_code, listing, notDisc>>

\* A plausible slip: the else branch forgets alias_counter -= 1.
DiscoverOther_no_decrement ==
    /\ pc = "discover_loop"
    /\ idx <= Len(entries)
    /\ entries[idx].kind = "other"
    /\ norm_dirs' = EnsureDir(norm_dirs, NormDir(Pad3(alias_counter)))
    /\ alias_counter' = alias_counter + 1
    /\ idx' = idx + 1
    /\ UNCHANGED <<pc, entries, units, exit_code, listing, notDisc>>

\* The for loop's body on an entry that is neither a directory nor a file
\* (lines 128-132, 142-145): its norm_dir is made, its alias number given back.
DiscoverOther ==
    /\ pc = "discover_loop"
    /\ idx <= Len(entries)
    /\ entries[idx].kind = "other"
    /\ norm_dirs' = EnsureDir(norm_dirs, NormDir(Pad3(alias_counter)))
    /\ alias_counter' = alias_counter
    /\ idx' = idx + 1
    /\ UNCHANGED <<pc, entries, units, exit_code, listing, notDisc>>

\* Lines 570-571: out_dir is <hw_root>/outputs/run_<ts> or the resolved --out.
\* An --out is [inside, parts]: under hw_root or not, and the names below
\* that root.  OutTop is the name of the entry of hw_root that holds
\* out_dir / "students", if any.
OutTop(out) ==
    IF out = None THEN { N_outputs }
    ELSE IF ~out[1].inside THEN {}
    ELSE IF out[1].parts = <<>> THEN { N_students }
    ELSE { out[1].parts[1] }

\* The files under out_dir / "students" so far, as shutil.copytree of the
\* entry of hw_root that holds them puts them below the entry's name.
OutDirFiles(dirs, out) ==
    UNION { { [f EXCEPT !.path = out[1].parts \o <<N_students, Tail(d)>> \o f.path] :
                f \in dirs[d] } : d \in DOMAIN dirs }

\* What a copy that raises has put under norm_dir before it raised: nothing
\* for a file or a folder shutil cannot read; for the entry that holds the
\* output directory, any part of the copies made so far (os.scandir gives
\* the order), before the recursion into students/<id> itself fails.
PartialCopies(e, dirs, out) ==
    IF out # None /\ e.name \in OutTop(out)
    THEN SUBSET OutDirFiles(dirs, out)
    ELSE { {} }

\* A plausible slip: a failed copy makes the scan start over.
DiscoverCopyRaises_rescans ==
    /\ pc = "discover_loop"
    /\ idx <= Len(entries)
    /\ entries[idx].kind \in {"dir", "file"}
    /\ ~entries[idx].readable
    /\ norm_dirs' = EnsureDir(norm_dirs, NormDir(Pad3(alias_counter)))
    /\ pc' = "discover"
    /\ UNCHANGED <<alias_counter, exit_code, idx, entries, units, listing, notDisc>>

\* The for loop's body on a directory or a file that shutil cannot copy: the
\* exception leaves _discover_submission_units and main() (no handler), and
\* the interpreter exits with status 1.
DiscoverCopyRaises ==
    /\ pc = "discover_loop"
    /\ idx <= Len(entries)
    /\ entries[idx].kind \in {"dir", "file"}
    /\ ~entries[idx].readable
    /\ \E copied \in PartialCopies(entries[idx], norm_dirs, out_arg) :
          norm_dirs' = [EnsureDir(norm_dirs, NormDir(Pad3(alias_counter)))
                           EXCEPT ![NormDir(Pad3(alias_counter))] = @ \cup copied]
    /\ alias_counter' = alias_counter + 1
    /\ pc' = "exit"
    /\ exit_code' = Some(1)
    /\ UNCHANGED <<idx, entries, units, listing, notDisc>>

\* A plausible slip: a run that finds no unit is treated as a failure.
DiscoverReturn_abort_when_empty ==
    /\ pc = "discover_loop"
    /\ idx > Len(entries)
    /\ pc' = IF units = <<>> THEN "exit" ELSE "anon_map"
    /\ exit_code' = IF units = <<>> THEN Some(1) ELSE exit_code
    /\ UNCHANGED <<discVars, listing, notDisc>>

\* return units (line 155)
DiscoverReturn ==
    /\ pc = "discover_loop"
    /\ idx > Len(entries)
    /\ pc' = "anon_map"
    /\ UNCHANGED <<discVars, exit_code, listing, notDisc>>

Discover ==
    \/ DiscoverBegin
    \/ DiscoverCopy
    \/ DiscoverOther
    \/ DiscoverCopyRaises
    \/ DiscoverReturn

----------------------------------------------------------------------------
(* Files and top-level entries the runs draw from                          *)

PlainFile(name) ==
    [path |-> <<>>, name |-> name, opens |-> FALSE, pages |-> <<>>, ocr |-> OcrGood]

PdfFile(path, name, opens, pages) ==
    [path |-> path, name |-> name, opens |-> opens, pages |-> pages, ocr |-> OcrGood]

ImageFile(path, name, opens, ocr) ==
    [path |-> path, name |-> name, opens |-> opens, pages |-> <<>>, ocr |-> ocr]

FileEntry(f, readable) ==
    [name |-> f.name, kind |-> "file", readable |-> readable, files |-> {f}]

DirEntry(name, held) ==
    [name |-> name, kind |-> "dir", readable |-> TRUE, files |-> held]

OtherEntry(name) ==
    [name |-> name, kind |-> "other", readable |-> TRUE, files |-> {}]

TextPage == [text |-> T10, raster_ok |-> TRUE, ocr |-> OcrGood]

ScanPage == [text |-> <<>>, raster_ok |-> TRUE, ocr |-> OcrGood]

E_amy == FileEntry(PdfFile(<<>>, <<"a","m","y",".","p","d","f">>, TRUE, <<TextPage>>), TRUE)

E_Zed ==
    DirEntry(<<"Z","e","d">>,
        { ImageFile(<<>>, <<"w",".","P","N","G">>, TRUE, OcrGood),
          PdfFile(<<<<"s","u","b">>>>, <<"Y",".","p","d","f">>, TRUE, <<TextPage>>),
          PdfFile(<<<<"O","u","t","p","u","t","s">>>>, <<"x",".","p","d","f">>, TRUE, <<TextPage>>),
          PlainFile(<<"n",".","t","x","t">>) })

E_zed == FileEntry(PdfFile(<<>>, <<"z","e","d">>, TRUE, <<TextPage>>), TRUE)

E_carl ==
    DirEntry(<<"c","a","r","l">>,
        { PlainFile(<<"n","o","t","e","s",".","t","x","t">>),
          PdfFile(<<<<"m","a","t","e","r","i","a","l","s">>>>, <<"k","e","y",".","p","d","f">>,
                  TRUE, <<TextPage>>) })

E_eve == FileEntry(PdfFile(<<>>, <<"e","v","e",".","P","D","F">>, FALSE, <<>>), TRUE)

E_dan ==
    FileEntry(ImageFile(<<>>, <<"d","a","n",".","j","p","e","g">>, TRUE, OcrGood), TRUE)

E_lnk == OtherEntry(<<"l","n","k">>)

E_bad == FileEntry(PlainFile(<<"b","a","d">>), FALSE)

E_git == DirEntry(<<".","g","i","t">>, { PlainFile(<<"c","f","g">>) })

E_dunder == FileEntry(PlainFile(<<"_","_","x">>), TRUE)

E_under == FileEntry(ImageFile(<<>>, <<"_","y",".","j","p","g">>, FALSE, OcrGood), TRUE)

E_Materials ==
    DirEntry(<<"M","a","t","e","r","i","a","l","s">>,
        { PdfFile(<<>>, <<"p","r","o","b","l","e","m","s",".","p","d","f">>, TRUE, <<TextPage>>) })

E_OUTPUTS == DirEntry(<<"O","U","T","P","U","T","S">>, {})

\* hw_root / "outputs", made by _ensure_dir(out_dir) for the default --out.
E_outputs == DirEntry(N_outputs, {})

MaxEntries == 3

Listings(pool) == { S \in SUBSET pool : Cardinality(S) <= MaxEntries }

DiscPool ==
    { E_amy, E_Zed, E_zed, E_lnk, E_bad, E_git, E_dunder, E_under,
      E_Materials, E_OUTPUTS }

\* _discover_submission_units on its own: a directory is drawn, then scanned.
InitDisc ==
    /\ OCR_AVAILABLE = TRUE
    /\ SevIdle
    /\ ExtIdle
    /\ AppIdle
    /\ RootIdle
    /\ GatherIdle
    /\ pc = "discover"
    /\ root_ok = TRUE
    /\ max_async = 1
    /\ ps_file = None
    /\ sol_file = None
    /\ class_info = None
    /\ out_arg = None
    /\ listing \in Listings(DiscPool)
    /\ NotStarted

NextDisc == Discover

SpecDisc == InitDisc /\ [][NextDisc]_vars

----------------------------------------------------------------------------
(* _gather_submission_files and the prompt (src/main.py 382-400, 440-489)  *)

PDF_EXTS == { <<".","p","d","f">> }

IMG_EXTS == { <<".","p","n","g">>, <<".","j","p","g">>, <<".","j","p","e","g">> }

SKIP_DIRS_CI == { N_materials, N_outputs }

\* A plausible slip: only the directories right under alias_dir are pruned.
Walked_top_level_only(f) == f.path = <<>> \/ Lower(f.path[1]) \notin SKIP_DIRS_CI

\* os.walk reaches f: no directory above it was pruned.
Walked(f) == \A k \in DOMAIN f.path : Lower(f.path[k]) \notin SKIP_DIRS_CI

\* _gather_submission_files (src/main.py 390-400): every list the walk and
\* the stable sort by lowered name can return.
_gather_submission_files(alias_dir) ==
    SortedByName({ f \in alias_dir :
                     Walked(f) /\ Lower(Suffix(f.name)) \in PDF_EXTS \cup IMG_EXTS })

\* A file of an alias directory: the directories above it and its name.
GFile(path, name) ==
    [path |-> path, name |-> name, opens |-> TRUE, pages |-> <<>>, ocr |-> OcrGood]

D_hw == <<"h","w">>

D_Materials == <<"M","a","t","e","r","i","a","l","s">>

D_OUTPUTS == <<"O","U","T","P","U","T","S">>

D_materials2 == <<"m","a","t","e","r","i","a","l","s","2">>

GatherPool ==
    { GFile(<<>>, <<"a",".","p","d","f">>),
      GFile(<<D_hw>>, <<"B",".","P","D","F">>),
      GFile(<<D_hw, D_hw>>, <<"b",".","p","d","f">>),
      GFile(<<D_hw, D_Materials, D_hw>>, <<"c",".","p","n","g">>),
      GFile(<<D_OUTPUTS>>, <<"d",".","J","P","e","G">>),
      GFile(<<D_materials2>>, <<"F",".","j","p","g">>),
      GFile(<<>>, <<"e",".","t","x","t">>),
      GFile(<<>>, <<".","p","d","f">>),
      GFile(<<D_hw>>, <<"g",".","j","p","g",".","b","a","k">>) }

MaxFiles == 3

\* _gather_submission_files on its own: a directory tree is drawn.
InitGather ==
    /\ OCR_AVAILABLE = TRUE
    /\ SevIdle
    /\ ExtIdle
    /\ AppIdle
    /\ MainIdle
    /\ RootIdle
    /\ normalized_dir \in { S \in SUBSET GatherPool : Cardinality(S) <= MaxFiles }
    /\ files = None

\* sub_files = _gather_submission_files(alias.normalized_dir) (line 441)
CallGather ==
    /\ files = None
    /\ \E sorted \in _gather_submission_files(normalized_dir) : files' = Some(sorted)
    /\ UNCHANGED <<OCR_AVAILABLE, sevVars, extVars, appVars, rootVars, normalized_dir, pc,
                   exit_code, cfgVars, listing, discVars, synthVars, artifacts, taskVars>>

NextGather == CallGather

SpecGather == InitGather /\ [][NextGather]_vars

MaxPagesProblem == 15

MaxPagesSubmission == 25

MaxPagesSolution == 15

MaxPagesSynthesis == 20

\* One tuple _grade_one_alias returns, or the exception it would raise.
Outcome(kind, u, major, moderate, agent_output) ==
    [kind |-> kind,
     alias_id |-> u.alias_id,
     original_name |-> u.original_name,
     major |-> major,
     moderate |-> moderate,
     agent_output |-> agent_output]

NoUnit == [alias_id |-> <<>>, original_name |-> <<>>]

Pending == Outcome("pending", NoUnit, 0, 0, <<>>)

NO_SUPPORTED_FILES == <<"[No supported files (PDF/PNG/JPG) found for this submission.]">>

\* Lines 443-445
NoFilesOutcome(u) == Outcome("tuple", u, 0, 0, NO_SUPPORTED_FILES)

\* f"[ERROR] {type(e).__name__}: {e}"
ErrorText(etype, msg) == <<"[ERROR] ", etype, ": ">> \o msg

\* A plausible slip: no except clause, the exception leaves the coroutine and
\* asyncio.gather hands it back in place of the tuple.
ErrorOutcome_bubbles(u, etype, msg) ==
    Outcome("exception", NoUnit, 0, 0, ErrorText(etype, msg))

\* A plausible slip: the except clause counts the severities of its message.
ErrorOutcome_counted(u, etype, msg) ==
    Outcome("tuple", u, _count_severities(ErrorText(etype, msg))[1],
            _count_severities(ErrorText(etype, msg))[2], ErrorText(etype, msg))

\* Lines 496-499: except Exception as e
ErrorOutcome(u, etype, msg) == Outcome("tuple", u, 0, 0, ErrorText(etype, msg))

\* Lines 493-494
SuccessOutcome(u, agent_output) ==
    LET c == _count_severities(agent_output)
    IN  Outcome("tuple", u, c[1], c[2], agent_output)

\* Lines 467-471: one PDF's blob put before the blobs of the files after
\* it; r is its extraction, rest the loop over the files after it.
PdfBlob(f, r, rest) ==
    IF r.raised THEN r
    ELSE IF rest.raised THEN rest
    ELSE Returned(
             <<"\n=== SUBMISSION (PDF): ">> \o f.name \o <<" ===\n[meta] pages=">>
                \o IntStr(r.value[2]) \o <<", ocr_pages=">>
                \o IntStr(r.value[3]) \o <<"\n">> \o r.value[1] \o <<"\n">>
                \o rest.value)

\* Lines 472-475: the same for an image.
ImageBlob(f, r, rest) ==
    IF rest.raised THEN rest
    ELSE Returned(
             <<"\n=== SUBMISSION (IMAGE): ">> \o f.name \o <<" ===\n">>
                \o r.value \o <<"\n">> \o rest.value)

RECURSIVE BuildBlobs(_, _, _)
\* Lines 464-475: the loop over sub_files from position k on; the blobs, or
\* the exception extract_pdf_text_with_ocr_fallback raised.
BuildBlobs(sub_files, k, available) ==
    IF k > Len(sub_files) THEN Returned(<<>>)
    ELSE IF Lower(Suffix(sub_files[k].name)) \in PDF_EXTS
    THEN Only({ PdfBlob(sub_files[k], r, rest) :
                  r \in { extract_pdf_text_with_ocr_fallback(
                              sub_files[k], Some(MaxPagesSubmission), available) },
                  rest \in { BuildBlobs(sub_files, k + 1, available) } })
    ELSE IF Lower(Suffix(sub_files[k].name)) \in IMG_EXTS
    THEN Only({ ImageBlob(sub_files[k], r, rest) :
                  r \in { extract_image_text(sub_files[k], available) },
                  rest \in { BuildBlobs(sub_files, k + 1, available) } })
    ELSE BuildBlobs(sub_files, k + 1, available)

\* Lines 477-489: the USER prompt.
UserPrompt(prob, solution_clause, blobs) ==
    Strip(<<"\n", "Problem (PDF->text; pages=">> \o IntStr(prob[2])
            \o <<", ocr_pages=">> \o IntStr(prob[3]) \o <<"):\n">> \o prob[1]
            \o <<"\n\n">> \o solution_clause
            \o <<"\n\nStudent submission(s) (analyze for problem points):\n">> \o blobs
            \o <<"\n\nTask:\nIdentify likely problem points ... If unreadable, say so and stop.",
                 "\n">>)

\* Lines 455-462
SolutionClause(solution_pdf, sol) ==
    IF solution_pdf # None
    THEN <<"Solution (PDF->text; pages=">> \o IntStr(sol[2])
            \o <<", ocr_pages=">> \o IntStr(sol[3]) \o <<"):\n">> \o sol[1]
    ELSE <<"[WARN] No solution PDF provided; analysis may be limited.">>

\* The prompt from the three extractions, or the first exception among them.
AssemblePrompt(solution_pdf, prob, sol, blobs) ==
    IF prob.raised THEN prob
    ELSE IF sol.raised THEN sol
    ELSE IF blobs.raised THEN blobs
    ELSE Returned(UserPrompt(prob.value, SolutionClause(solution_pdf, sol.value),
                             blobs.value))

\* Lines 448-489 for a non-empty sub_files: the prompt, or the exception an
\* extraction raised.
BuildPrompt(sub_files, problem_pdf, solution_pdf, available) ==
    Only({ AssemblePrompt(solution_pdf, prob, sol, blobs) :
             prob \in { IF problem_pdf # None
                        THEN extract_pdf_text_with_ocr_fallback(
                                 problem_pdf[1], Some(MaxPagesProblem), available)
                        ELSE Returned(<<<<"[INFO] Problem PDF not provided or not found.">>,
                                        0, 0>>) },
             sol \in { IF solution_pdf # None
                       THEN extract_pdf_text_with_ocr_fallback(
                                solution_pdf[1], Some(MaxPagesSolution), available)
                       ELSE Returned(<<<<>>, 0, 0>>) },
             blobs \in { BuildBlobs(sub_files, 1, available) } })

\* Lines 491 and 496-499 seen from the prompt p: the call is issued, or the
\* except clause turns the exception into the outcome.
PromptOutcome(u, p) ==
    IF p.raised
    THEN [call |-> FALSE, prompt |-> <<>>, outcome |-> ErrorOutcome(u, p.etype, p.msg)]
    ELSE [call |-> TRUE, prompt |-> p.value, outcome |-> Pending]

\* A plausible slip: the "if not sub_files" short-circuit is missing.
BodyOutcome_no_short_circuit(u, sub_files, problem_pdf, solution_pdf, available) ==
    PromptOutcome(u, BuildPrompt(sub_files, problem_pdf, solution_pdf, available))

\* Lines 440-489 and their except clause: what the coroutine does between
\* getting its slot and awaiting the analysis call: it issues the call with
\* a prompt, or it ends at once with an outcome.
BodyOutcome(u, sub_files, problem_pdf, solution_pdf, available) ==
    IF sub_files = <<>>
    THEN [call |-> FALSE, prompt |-> <<>>, outcome |-> NoFilesOutcome(u)]
    ELSE PromptOutcome(u, BuildPrompt(sub_files, problem_pdf, solution_pdf, available))

----------------------------------------------------------------------------
(* main() (src/main.py 553-673)                                            *)

MaxAsyncArg == 2

\* asyncio.Semaphore as _grade_one_alias uses it through "async with sem":
\* the counter, the queue of waiting coroutines, and each coroutine's
\* position.
Sem(value, waiters, t) == [value |-> value, waiters |-> waiters, tpc |-> t]

\* A plausible slip: no semaphore, every coroutine enters at once.
SemLocked_never(s) == FALSE

\* Semaphore.locked(): a woken waiter stays queued until it resumes.
SemLocked(s) == s.value = 0 \/ s.waiters # <<>>

\* A plausible slip: a release wakes no waiter.
WakeUpNext_lost(s) == s

\* Semaphore._wake_up_next()
WakeUpNext(s) ==
    LET waiting == { k \in DOMAIN s.waiters : s.tpc[s.waiters[k]] = "waiting" }
    IN  IF waiting = {} THEN s
        ELSE LET k == CHOOSE k \in waiting : \A m \in waiting : k <= m
             IN  [s EXCEPT !.value = @ - 1, !.tpc[s.waiters[k]] = "woken"]

\* A plausible slip: the slot is not given back.
Release_keeps_slot(s) == WakeUpNext(s)

\* Semaphore.release(), the exit of "async with sem"
Release(s) == WakeUpNext([s EXCEPT !.value = @ + 1])

\* The tail of Semaphore.acquire() once the waiter's future is set.
Resumed(s, i) ==
    LET s1 == [s EXCEPT !.waiters = SelectSeq(@, LAMBDA w : w # i)]
    IN  IF s1.value > 0 THEN WakeUpNext(s1) ELSE s1

notMain == <<OCR_AVAILABLE, sevVars, extVars, appVars, rootVars, gatherVars, cfgVars>>

\* Lines 557-561: the homework root is not a directory.
MainInvalidRoot ==
    /\ pc = "start"
    /\ ~root_ok
    /\ exit_code' = Some(2)
    /\ pc' = "exit"
    /\ UNCHANGED <<notMain, listing, discVars, synthVars, artifacts, taskVars>>

\* The entry of hw_root that holds the output directory: shutil.copytree
\* of it into students/<id> below itself never returns.
OutDirEntry(name) == [DirEntry(name, {}) EXCEPT !.readable = FALSE]

\* Lines 563-575: the materials are resolved, out_dir and its students
\* directory are made.
MainEnsureDirs ==
    /\ pc = "start"
    /\ root_ok
    /\ listing' = listing \cup { OutDirEntry(n) : n \in { m \in OutTop(out_arg) :
                                                          \A e \in listing : e.name # m } }
    /\ pc' = "discover"
    /\ UNCHANGED <<notMain, exit_code, discVars, synthVars, artifacts, taskVars>>

ANON_HEADER ==
    << <<"alias_id">>, <<"original_name">>, <<"original_path">>,
       <<"normalized_dir">>, <<"notes">> >>

\* _write_anonymization_map (lines 157-162), called at lines 582-584
WriteAnonMap ==
    /\ pc = "anon_map"
    /\ artifacts' = [artifacts EXCEPT !.anonymization_map =
          [written |-> TRUE,
           rows |-> <<ANON_HEADER>> \o
                    [k \in DOMAIN units |->
                       <<units[k].alias_id, units[k].original_name,
                         units[k].original_path, units[k].normalized_dir,
                         units[k].notes>>]]]
    /\ pc' = "synth"
    /\ UNCHANGED <<notMain, exit_code, listing, discVars, synthVars, taskVars>>

\* _write_text_pdf's product: <out_dir>/generated/solution_generated.pdf
GeneratedSolution ==
    PdfFile(<<<<"g","e","n","e","r","a","t","e","d">>>>,
            <<"s","o","l","u","t","i","o","n","_","g","e","n","e","r","a","t","e","d",
              ".","p","d","f">>,
            TRUE, <<TextPage>>)

\* A plausible slip: a solution is generated although one was provided.
SolutionProvided_generates_anyway ==
    /\ pc = "synth"
    /\ sol_file # None
    /\ sol_effective' = sol_file
    /\ synth_outcome' = "provided"
    /\ gen_calls' = gen_calls + 1
    /\ pc' = "manifest"
    /\ UNCHANGED <<notMain, exit_code, listing, discVars, warnings, artifacts, taskVars>>

\* Line 587 with an author-provided solution: nothing is synthesized.
SolutionProvided ==
    /\ pc = "synth"
    /\ sol_file # None
    /\ sol_effective' = sol_file
    /\ synth_outcome' = "provided"
    /\ pc' = "manifest"
    /\ UNCHANGED <<notMain, exit_code, listing, discVars, gen_calls, warnings,
                   artifacts, taskVars>>

\* synthesize_solution_if_missing returning None before any generation call
\* (lines 338-348): no problem set, or its extraction raised.
SynthesizeNoProblem ==
    /\ pc = "synth"
    /\ sol_file = None
    /\ \/ /\ ps_file = None
          /\ synth_outcome' = "no_problem"
       \/ /\ ps_file # None
          /\ extract_pdf_text_with_ocr_fallback(
                 ps_file[1], Some(MaxPagesSynthesis), OCR_AVAILABLE).raised
          /\ synth_outcome' = "extract_raised"
    /\ sol_effective' = None
    /\ pc' = "manifest"
    /\ UNCHANGED <<notMain, exit_code, listing, discVars, gen_calls, warnings,
                   artifacts, taskVars>>

\* How the part of synthesize_solution_if_missing after the extraction can
\* end: the generation call raises, the files cannot be written, or the PDF
\* is generated.
CallOutcomes == {"call_raised", "write_failed", "generated"}

\* A plausible slip: the generation call is not guarded, its exception ends
\* the run.
SynthesizeCall_aborts ==
    /\ pc = "synth"
    /\ sol_file = None
    /\ ps_file # None
    /\ ~extract_pdf_text_with_ocr_fallback(
            ps_file[1], Some(MaxPagesSynthesis), OCR_AVAILABLE).raised
    /\ gen_calls' = gen_calls + 1
    /\ \E o \in CallOutcomes :
          /\ synth_outcome' = o
          /\ sol_effective' = IF o = "generated" THEN Some(GeneratedSolution) ELSE None
          /\ pc' = IF o = "call_raised" THEN "exit" ELSE "manifest"
          /\ exit_code' = IF o = "call_raised" THEN Some(1) ELSE exit_code
    /\ UNCHANGED <<notMain, listing, discVars, warnings, artifacts, taskVars>>

\* Lines 350-377: the generation call is made once; it raises (lines
\* 359-363), or the files cannot be written (lines 375-377), or the generated
\* PDF becomes the effective solution (line 374).
SynthesizeCall ==
    /\ pc = "synth"
    /\ sol_file = None
    /\ ps_file # None
    /\ ~extract_pdf_text_with_ocr_fallback(
            ps_file[1], Some(MaxPagesSynthesis), OCR_AVAILABLE).raised
    /\ gen_calls' = gen_calls + 1
    /\ \E o \in CallOutcomes :
          /\ synth_outcome' = o
          /\ sol_effective' = IF o = "generated" THEN Some(GeneratedSolution) ELSE None
    /\ pc' = "manifest"
    /\ UNCHANGED <<notMain, exit_code, listing, discVars, warnings, artifacts, taskVars>>

\* The file a --class path names.
ClassFile(name, exists, is_file, readable, text) ==
    [name |-> name, exists |-> exists, is_file |-> is_file, readable |-> readable,
     text |-> text]

\* _read_classinfo_if_txt (lines 402-412): None, or the text used as
\* ClassInfo.
_read_classinfo_if_txt(class_info_path) ==
    IF class_info_path = None THEN None
    ELSE IF \/ ~class_info_path[1].exists
            \/ ~class_info_path[1].is_file
            \/ Lower(Suffix(class_info_path[1].name)) # <<".","t","x","t">>
    THEN None
    ELSE IF class_info_path[1].readable THEN Some(class_info_path[1].text)
    ELSE Some(<<"[WARN] Failed to read class info: ", "permission denied">>)

\* Line 616: the class_info_path the configuration snapshot keeps.
ManifestClassInfoPath ==
    IF /\ _read_classinfo_if_txt(class_info) # None
       /\ _read_classinfo_if_txt(class_info)[1] # <<>>
       /\ class_info # None
    THEN Some(class_info[1].name) ELSE None

W_PROBLEM_SET_NOT_FOUND == "Problem set not found at {ps_path}."

W_SYNTHESIZED == "No author-provided solutions found; synthesized at {sol_effective}."

W_NO_SOLUTIONS == "Solutions not found and synthesis failed; proceeding without solutions."

\* Lines 601-608
Warnings ==
    (IF ps_file = None THEN <<W_PROBLEM_SET_NOT_FOUND>> ELSE <<>>)
    \o (IF sol_file # None THEN <<>>
        ELSE IF sol_effective # None THEN <<W_SYNTHESIZED>>
        ELSE <<W_NO_SOLUTIONS>>)

\* A plausible slip: the manifest is left for the end of the run and then
\* forgotten.
WriteManifest_skipped ==
    /\ pc = "manifest"
    /\ warnings' = Warnings
    /\ pc' = "dispatch"
    /\ UNCHANGED <<notMain, exit_code, listing, discVars, sol_effective, gen_calls,
                   synth_outcome, artifacts, taskVars>>

\* Lines 600-621: the warnings are collected and run_manifest.json written.
WriteManifest ==
    /\ pc = "manifest"
    /\ warnings' = Warnings
    /\ artifacts' = [artifacts EXCEPT !.run_manifest =
          [written |-> TRUE,
           rows |-> <<[max_async |-> Max(1, max_async),
                       problem_set_path |-> ps_file,
                       solutions_path |-> sol_effective,
                       class_info_path |-> ManifestClassInfoPath,
                       discovered |-> units,
                       warnings |-> Warnings]>>]]
    /\ pc' = "dispatch"
    /\ UNCHANGED <<notMain, exit_code, listing, discVars, sol_effective, gen_calls,
                   synth_outcome, taskVars>>

----------------------------------------------------------------------------
(* Dispatch: _grade_one_alias under the semaphore (src/main.py 424-499,    *)
(* 623-639) and the results file (641-651)                                 *)

\* Lines 627-637: the semaphore and one coroutine per unit, in units order.
CreateTasks ==
    /\ pc = "dispatch"
    /\ sem_value' = Max(1, max_async)
    /\ sem_waiters' = <<>>
    /\ tpc' = [k \in DOMAIN units |-> "created"]
    /\ result' = [k \in DOMAIN units |-> Pending]
    /\ call_end' = [k \in DOMAIN units |-> "none"]
    /\ calls' = [k \in DOMAIN units |-> 0]
    /\ prompt' = [k \in DOMAIN units |-> <<>>]
    /\ done_order' = <<>>
    /\ results' = <<>>
    /\ pc' = "gather"
    /\ UNCHANGED <<notMain, exit_code, listing, discVars, synthVars, artifacts>>

notTask == <<notMain, pc, exit_code, listing, discVars, synthVars, artifacts, results>>

\* Coroutine i leaves "async with sem" with outcome r; rel is the semaphore
\* after the release.
Finish(i, rel, r) ==
    /\ tpc' = [rel.tpc EXCEPT ![i] = "done"]
    /\ sem_value' = rel.value
    /\ sem_waiters' = rel.waiters
    /\ result' = [result EXCEPT ![i] = r]
    /\ done_order' = Append(done_order, i)

\* Coroutine i, holding its slot (the semaphore is s), awaits the analysis
\* call or returns at once: b is what lines 440-489 came to.
Proceed(i, s, b) ==
    IF b.call
    THEN /\ tpc' = [s.tpc EXCEPT ![i] = "calling"]
         /\ sem_value' = s.value
         /\ sem_waiters' = s.waiters
         /\ calls' = [calls EXCEPT ![i] = @ + 1]
         /\ prompt' = [prompt EXCEPT ![i] = b.prompt]
         /\ UNCHANGED <<result, done_order, call_end>>
    ELSE /\ Finish(i, Release(s), b.outcome)
         /\ UNCHANGED <<calls, prompt, call_end>>

\* Coroutine i holds its slot and runs lines 440-491 up to the await of the
\* analysis call.
EnterBody(i, s) ==
    \E sub_files \in _gather_submission_files(norm_dirs[units[i].normalized_dir]) :
       \E b \in { BodyOutcome(units[i], sub_files, ps_file, sol_effective,
                               OCR_AVAILABLE) } :
          Proceed(i, s, b)

\* The event loop runs the coroutines' first steps in creation order.
FirstStepDue(i) ==
    /\ pc = "gather"
    /\ i \in DOMAIN tpc
    /\ tpc[i] = "created"
    /\ \A j \in 1..(i - 1) : tpc[j] # "created"

\* Line 438, Semaphore.acquire() with a free slot.
TaskAcquire(i) ==
    /\ FirstStepDue(i)
    /\ ~SemLocked(Sem(sem_value, sem_waiters, tpc))
    /\ EnterBody(i, Sem(sem_value - 1, sem_waiters, tpc))
    /\ UNCHANGED notTask

\* A plausible slip: the files are gathered before the semaphore is entered,
\* so that a unit without supported files returns without queueing.
TaskWait_after_gathering(i) ==
    /\ FirstStepDue(i)
    /\ SemLocked(Sem(sem_value, sem_waiters, tpc))
    /\ IF _gather_submission_files(norm_dirs[units[i].normalized_dir]) = { <<>> }
       THEN /\ Finish(i, Sem(sem_value, sem_waiters, tpc), NoFilesOutcome(units[i]))
            /\ UNCHANGED <<notTask, call_end, calls, prompt>>
       ELSE /\ tpc' = [tpc EXCEPT ![i] = "waiting"]
            /\ sem_waiters' = Append(sem_waiters, i)
            /\ UNCHANGED <<notTask, sem_value, result, call_end, calls, prompt,
                           done_order>>

\* Line 438, Semaphore.acquire() without a free slot: the coroutine queues.
TaskWait(i) ==
    /\ FirstStepDue(i)
    /\ SemLocked(Sem(sem_value, sem_waiters, tpc))
    /\ tpc' = [tpc EXCEPT ![i] = "waiting"]
    /\ sem_waiters' = Append(sem_waiters, i)
    /\ UNCHANGED <<notTask, sem_value, result, call_end, calls, prompt, done_order>>

\* The event loop runs every coroutine's first step before it delivers a
\* wake-up or the completion of a worker thread.
LaterStepDue(i, at) ==
    /\ pc = "gather"
    /\ i \in DOMAIN tpc
    /\ tpc[i] = at
    /\ \A j \in DOMAIN tpc : tpc[j] # "created"

\* Line 438, a woken waiter resumes inside acquire() and enters the body.
TaskResume(i) ==
    /\ LaterStepDue(i, "woken")
    /\ EnterBody(i, Resumed(Sem(sem_value, sem_waiters, tpc), i))
    /\ UNCHANGED notTask

R_findings ==
    T_Major \o <<" ">> \o T_majority \o <<" ">> \o T_moderate \o <<".","\n">> \o T_major

R_clean == <<"o","k">>

\* What the analysis call can answer.
Responses == { R_findings, R_clean }

\* Lines 491-494: the analysis call returns; the counts are taken.
CallReturn(i) ==
    /\ LaterStepDue(i, "calling")
    /\ \E resp \in Responses :
          Finish(i, Release(Sem(sem_value, sem_waiters, tpc)),
                 SuccessOutcome(units[i], resp))
    /\ call_end' = [call_end EXCEPT ![i] = "returned"]
    /\ UNCHANGED <<notTask, calls, prompt>>

API_ERROR ==
    <<"a","p","i",":"," ">> \o T_major \o <<" ">> \o T_moderate \o <<" ","l","o","a","d">>

\* A plausible slip: the analysis call is not inside the try, its exception
\* ends the run with a traceback.
CallRaise_aborts(i) ==
    /\ LaterStepDue(i, "calling")
    /\ call_end' = [call_end EXCEPT ![i] = "raised"]
    /\ pc' = "exit"
    /\ exit_code' = Some(1)
    /\ UNCHANGED <<notMain, listing, discVars, synthVars, artifacts, results,
                   tpc, sem_value, sem_waiters, result, calls, prompt, done_order>>

\* A plausible slip: a call that raised is issued once more.
CallRaise_retries(i) ==
    /\ LaterStepDue(i, "calling")
    /\ calls[i] < 2
    /\ calls' = [calls EXCEPT ![i] = @ + 1]
    /\ UNCHANGED <<notTask, tpc, sem_value, sem_waiters, result, call_end, prompt,
                   done_order>>

\* Lines 491 and 496-499: the analysis call raises inside the try.
CallRaise(i) ==
    /\ LaterStepDue(i, "calling")
    /\ Finish(i, Release(Sem(sem_value, sem_waiters, tpc)),
              ErrorOutcome(units[i], "RuntimeError", API_ERROR))
    /\ call_end' = [call_end EXCEPT ![i] = "raised"]
    /\ UNCHANGED <<notTask, calls, prompt>>

\* A plausible slip: the results are collected as the coroutines complete.
GatherReturn_completion_order ==
    /\ pc = "gather"
    /\ \A i \in DOMAIN tpc : tpc[i] = "done"
    /\ results' = [k \in DOMAIN done_order |-> result[done_order[k]]]
    /\ pc' = "persist"
    /\ UNCHANGED <<notMain, exit_code, listing, discVars, synthVars, artifacts,
                   tpc, sem_value, sem_waiters, result, call_end, calls, prompt,
                   done_order>>

\* A plausible slip: the wait ends with the first coroutine that is done.
GatherReturn_first_completed ==
    /\ pc = "gather"
    /\ \E i \in DOMAIN tpc : tpc[i] = "done"
    /\ results' = result
    /\ pc' = "persist"
    /\ UNCHANGED <<notMain, exit_code, listing, discVars, synthVars, artifacts,
                   tpc, sem_value, sem_waiters, result, call_end, calls, prompt,
                   done_order>>

\* Lines 386-388 and 639: asyncio.gather returns once every coroutine is
\* done, results in argument order.
GatherReturn ==
    /\ pc = "gather"
    /\ \A i \in DOMAIN tpc : tpc[i] = "done"
    /\ results' = result
    /\ pc' = "persist"
    /\ UNCHANGED <<notMain, exit_code, listing, discVars, synthVars, artifacts,
                   tpc, sem_value, sem_waiters, result, call_end, calls, prompt,
                   done_order>>

RESULTS_HEADER ==
    << <<"alias_id">>, <<"original_name">>, <<"major_count">>,
       <<"moderate_count">>, <<"agent_output">> >>

UNKNOWN == <<"UNKNOWN">>

\* Lines 646-651: the row csv.writer writes for one gathered result.
ResultRow(r) ==
    IF r.kind = "exception"
    THEN <<UNKNOWN, UNKNOWN, IntStr(0), IntStr(0), r.agent_output>>
    ELSE <<r.alias_id, r.original_name, IntStr(r.major), IntStr(r.moderate),
           r.agent_output>>

\* Lines 641-673: pregrading_results.csv is written, the summary printed,
\* main returns 0.
WriteResults ==
    /\ pc = "persist"
    /\ artifacts' = [artifacts EXCEPT !.pregrading_results =
          [written |-> TRUE,
           rows |-> <<RESULTS_HEADER>> \o [k \in DOMAIN results |-> ResultRow(results[k])]]]
    /\ exit_code' = Some(0)
    /\ pc' = "exit"
    /\ UNCHANGED <<notMain, listing, discVars, synthVars, taskVars>>

ProblemGood ==
    PdfFile(<<N_materials>>, <<"p","r","o","b","l","e","m","s",".","p","d","f">>,
            TRUE, <<TextPage, ScanPage>>)

ProblemCorrupt ==
    PdfFile(<<N_materials>>, <<"p","r","o","b","l","e","m","s",".","p","d","f">>,
            FALSE, <<>>)

SolutionGood ==
    PdfFile(<<N_materials>>, <<"s","o","l","u","t","i","o","n","s",".","p","d","f">>,
            TRUE, <<TextPage>>)

ClassTxt ==
    ClassFile(<<"c","s","1",".","t","x","t">>, TRUE, TRUE, TRUE, <<"c","s","1">>)

ClassMissing ==
    ClassFile(<<"g","o","n","e",".","t","x","t">>, FALSE, FALSE, FALSE, <<>>)

ClassPdf ==
    ClassFile(<<"c","s","1",".","p","d","f">>, TRUE, TRUE, TRUE, <<"c","s","1">>)

\* The installations and materials a run can meet: whether OCR is
\* installed, the problem set, the solutions, the --class file.
Environments ==
    { [ocr |-> TRUE, ps |-> None, sol |-> None, class |-> None],
      [ocr |-> FALSE, ps |-> Some(ProblemGood), sol |-> None,
       class |-> Some(ClassTxt)],
      [ocr |-> TRUE, ps |-> Some(ProblemCorrupt), sol |-> None,
       class |-> Some(ClassMissing)],
      [ocr |-> TRUE, ps |-> Some(ProblemGood), sol |-> Some(SolutionGood),
       class |-> Some(ClassPdf)] }

MainPool == { E_amy, E_Zed, E_dan, E_carl, E_eve, E_lnk, E_bad }

\* A run of main(): the command line and the file system are drawn.
Init ==
    /\ \E env \in Environments :
          /\ OCR_AVAILABLE = env.ocr
          /\ ps_file = env.ps
          /\ sol_file = env.sol
          /\ class_info = env.class
    /\ SevIdle
    /\ ExtIdle
    /\ AppIdle
    /\ RootIdle
    /\ GatherIdle
    /\ pc = "start"
    /\ out_arg = None
    /\ max_async \in 0..MaxAsyncArg
    /\ \/ root_ok = TRUE /\ listing \in Listings(MainPool)
       \/ root_ok = FALSE /\ listing = {}
    /\ NotStarted

Next ==
    \/ MainInvalidRoot
    \/ MainEnsureDirs
    \/ DiscoverBegin
    \/ DiscoverCopy
    \/ DiscoverOther
    \/ DiscoverCopyRaises
    \/ DiscoverReturn
    \/ WriteAnonMap
    \/ SolutionProvided
    \/ SynthesizeNoProblem
    \/ SynthesizeCall
    \/ WriteManifest
    \/ CreateTasks
    \/ \E i \in 1..MaxEntries : TaskAcquire(i)
    \/ \E i \in 1..MaxEntries : TaskWait(i)
    \/ \E i \in 1..MaxEntries : TaskResume(i)
    \/ \E i \in 1..MaxEntries : CallReturn(i)
    \/ \E i \in 1..MaxEntries : CallRaise(i)
    \/ GatherReturn
    \/ WriteResults

Spec == Init /\ [][Next]_vars

----------------------------------------------------------------------------
(* The homework root (src/main.py 83-91)                                   *)
(*                                                                         *)
(* A path is [anchor, parts]: anchor "rel" for a relative path, "abs" for  *)
(* one that starts at the root, "home" for one that starts with "~"; parts *)
(* are its components after the anchor.  A resolved path is the sequence   *)
(* of its components from the root.  The tree holds no symbolic links.     *)

P_Homeworks == <<"H","o","m","e","w","o","r","k","s">>

P_homeworks == <<"h","o","m","e","w","o","r","k","s">>

P_HOMEWORKS == <<"H","O","M","E","W","O","R","K","S">>

P_MyHomeworks == <<"M","y">> \o P_Homeworks

P_hw1 == <<"h","w","1">>

P_up == <<".", ".">>

P_root == <<"/">>

HOME == << <<"h","o","m","e">>, <<"t","a">> >>

CWD == HOME \o << <<"g","r","a","d","e","r">> >>

PathOf(anchor, parts) == [anchor |-> anchor, parts |-> parts]

\* Path.expanduser()
expanduser(p) == IF p.anchor = "home" THEN PathOf("abs", HOME \o p.parts) ELSE p

\* Path.parts: the root is a part of an absolute path.
Parts(p) == IF p.anchor = "abs" THEN <<P_root>> \o p.parts ELSE p.parts

\* Path.__truediv__: an absolute right operand replaces the left one.
Join(left, p) == IF p.anchor = "abs" THEN p ELSE PathOf(left.anchor, left.parts \o p.parts)

RECURSIVE Normalise(_, _)
\* The ".." handling of Path.resolve(): done holds the components kept so far.
Normalise(done, rest) ==
    IF rest = <<>> THEN done
    ELSE IF Head(rest) = P_up
    THEN Normalise(IF done = <<>> THEN done ELSE SubSeq(done, 1, Len(done) - 1), Tail(rest))
    ELSE Normalise(Append(done, Head(rest)), Tail(rest))

\* Path.resolve()
resolve(p) ==
    IF p.anchor = "abs" THEN Normalise(<<>>, p.parts) ELSE Normalise(CWD, p.parts)

\* A plausible slip: the component is compared without lowering.
_resolve_homeworks_root_literal(arg) ==
    IF \E k \in DOMAIN Parts(expanduser(arg)) : Parts(expanduser(arg))[k] = P_Homeworks
    THEN resolve(expanduser(arg))
    ELSE resolve(Join(PathOf("rel", <<P_Homeworks>>), expanduser(arg)))

\* _resolve_homeworks_root (lines 83-91)
_resolve_homeworks_root(arg) ==
    IF \E k \in DOMAIN Parts(expanduser(arg)) :
          Lower(Parts(expanduser(arg))[k]) = P_homeworks
    THEN resolve(expanduser(arg))
    ELSE resolve(Join(PathOf("rel", <<P_Homeworks>>), expanduser(arg)))

MaxParts == 3

Components == { P_Homeworks, P_homeworks, P_HOMEWORKS, P_MyHomeworks, P_hw1, P_up }

FolderArgs ==
    { PathOf(a, s) : a \in {"rel", "abs", "home"},
                     s \in UNION { [1..n -> Components] : n \in 0..MaxParts } }

\* main at line 558, for every --folder argument.
InitRoot ==
    /\ OCR_AVAILABLE = TRUE
    /\ SevIdle
    /\ ExtIdle
    /\ AppIdle
    /\ MainIdle
    /\ GatherIdle
    /\ folder_arg \in { Some(p) : p \in FolderArgs }
    /\ hw_root = None

\* hw_root = _resolve_homeworks_root(args.folder) (line 558)
ResolveRoot ==
    /\ folder_arg # None
    /\ hw_root = None
    /\ hw_root' = Some(_resolve_homeworks_root(folder_arg[1]))
    /\ UNCHANGED <<OCR_AVAILABLE, sevVars, extVars, appVars, gatherVars, folder_arg, pc,
                   exit_code,
                   cfgVars, listing, discVars, synthVars, artifacts, taskVars>>

NextRoot == ResolveRoot

SpecRoot == InitRoot /\ [][NextRoot]_vars

----------------------------------------------------------------------------
(* Web app grading (src/app.py 24-82, 341-411)                             *)

S_done == <<"d","o","n","e">>

S_review == <<"r","e","v","i","e","w">>

S_problem == <<"p","r","o","b","l","e","m">>

OUTPUT_STATES == <<S_done, S_review, S_problem>>

\* A normalisation that lets an unknown state through.
_normalize_state_unchecked(state) ==
    IF state = None THEN S_review ELSE Lower(Strip(state[1]))

\* _normalize_state (lines 38-42); state is None or Some(text).
_normalize_state(state) ==
    IF state = None THEN S_review
    ELSE IF Lower(Strip(state[1])) \in Range(OUTPUT_STATES)
    THEN Lower(Strip(state[1]))
    ELSE S_review

STATE_MARKER == <<"s","t","a","t","e",":">>

RECURSIVE DetectedState(_, _)
\* Lines 62-67: the scan of the file's lines from line k on for the first
\* "State:" marker; "review" when there is none or its value is empty.
DetectedState(lines, k) ==
    IF k > Len(lines) THEN S_review
    ELSE IF StartsWith(Lower(lines[k]), STATE_MARKER)
    THEN IF Strip(SubSeq(lines[k], Len(STATE_MARKER) + 1, Len(lines[k]))) # <<>>
         THEN Lower(Strip(SubSeq(lines[k], Len(STATE_MARKER) + 1, Len(lines[k]))))
         ELSE S_review
    ELSE DetectedState(lines, k + 1)

N_DONE == <<"Automated checks reported no issues.">>

N_REVIEW == <<"Requires human review.">>

N_PROBLEM == <<"Automatic grading detected a blocking problem.">>

N_PENDING == <<"Detailed grading notes are pending.">>

\* Lines 69-75
NoteFor(normalized) ==
    IF normalized = S_done THEN N_DONE
    ELSE IF normalized = S_review THEN N_REVIEW
    ELSE IF normalized = S_problem THEN N_PROBLEM
    ELSE N_PENDING

SubmissionOutcome(submission, state, notes) ==
    [submission |-> submission, state |-> state, notes |-> notes]

\* Lines 54-77 for one path: a file that cannot be read counts as empty.
PipelineOutcome(f) ==
    SubmissionOutcome(
        f.name,
        Some(DetectedState(IF f.readable THEN f.lines ELSE <<>>, 1)),
        NoteFor(_normalize_state(
                    Some(DetectedState(IF f.readable THEN f.lines ELSE <<>>, 1)))))

\* _run_grading_pipeline (lines 45-82)
_run_grading_pipeline(submission_paths) ==
    [k \in DOMAIN submission_paths |-> PipelineOutcome(submission_paths[k])]

\* Lines 376 and 381-383: outcome_map.get(submission.resolve()), the last
\* outcome of that path, or the default outcome.
OutcomeOf(outcomes, f) ==
    IF \E k \in DOMAIN outcomes : outcomes[k].submission = f.name
    THEN outcomes[CHOOSE k \in DOMAIN outcomes :
                     /\ outcomes[k].submission = f.name
                     /\ \A m \in DOMAIN outcomes :
                           outcomes[m].submission = f.name => m <= k]
    ELSE SubmissionOutcome(f.name, Some(S_review), <<>>)

\* Lines 390-396: the body of a note file.
NoteBody(submission_name, notes) ==
    <<"Submission: ">> \o submission_name \o <<"\n", "\n">>
       \o (IF Strip(notes) # <<>> THEN Strip(notes) ELSE N_PENDING) \o <<"\n">>

TXT == <<".","t","x","t">>

\* directory.glob("*.txt")
GlobTxt(name) ==
    Len(name) >= Len(TXT) /\ SubSeq(name, Len(name) - Len(TXT) + 1, Len(name)) = TXT

NoteFile(state, name, body) == [state |-> state, name |-> name, body |-> body]

\* Lines 378-396 for the submission at position index.
GradedNote(outcomes, submissions, index) ==
    NoteFile(_normalize_state(OutcomeOf(outcomes, submissions[index]).state),
             Pad3(index) \o TXT,
             NoteBody(submissions[index].name,
                      OutcomeOf(outcomes, submissions[index]).notes))

\* Lines 385-386
SummaryRow(outcomes, submissions, index) ==
    <<submissions[index].name, Pad3(index),
      _normalize_state(OutcomeOf(outcomes, submissions[index]).state)>>

SUMMARY_HEADER == << <<"submission_name">>, <<"id">>, <<"state">> >>

\* A grading that unlinks no earlier note.
KeptNotes_none_removed(notes) == notes

\* Lines 369-372: the notes left after every *.txt of the three state
\* directories is unlinked.
KeptNotes(notes) ==
    { n \in notes : ~(n.state \in Range(OUTPUT_STATES) /\ GlobTxt(n.name)) }

\* Lines 378-402: the outputs folder after the grading of submissions.
GradedOutputs(submissions, outcomes) ==
    [exists |-> TRUE,
     notes |-> { n \in KeptNotes(outputs_dir.notes) :
                   \A k \in DOMAIN submissions :
                      ~(GradedNote(outcomes, submissions, k).state = n.state
                        /\ GradedNote(outcomes, submissions, k).name = n.name) }
               \cup { GradedNote(outcomes, submissions, k) : k \in DOMAIN submissions },
     summary |-> Some(<<SUMMARY_HEADER>> \o
                      [k \in DOMAIN submissions |->
                          SummaryRow(outcomes, submissions, k)])]

notApp == <<OCR_AVAILABLE, sevVars, extVars, runVars>>

\* What no grading request touches.
notGrade ==
    <<assignment_title, uploaded_files, max_concurrent, nitpickiness_level, grading_notes,
      pipeline, notApp>>

\* action_grade_submission without a selected assignment (lines 344-346)
GradeNoAssignment ==
    /\ assignment_title = <<>>
    /\ status_message' = "No assignment selected"
    /\ request' = Request("grade", NullVal)
    /\ response' = [code |-> 400, totalSubmissions |-> 0]
    /\ UNCHANGED <<appdata, last_outcomes, notGrade>>

\* A plausible slip: ids are given in directory order, without the sort.
FilesInOrder_unsorted(dir) ==
    { s \in [1..Cardinality({ e \in dir : e.kind = "file" }) ->
                { e \in dir : e.kind = "file" }] :
        \A i, j \in DOMAIN s : i # j => s[i] # s[j] }

N_REPLACED == <<"OCR failed; unreadable submission.">>

\* No outcome for a submission in the list a replaced pipeline returns.
Absent == <<None, None>>

\* The state a replaced pipeline gives a submission: none, known with other
\* case and blanks, unknown; or no outcome at all.
ReplacedStates ==
    { None, Some(<<" ","D","o","n","e"," ">>), Some(<<"P","R","O","B","L","E","M">>),
      Some(<<"w","e","i","r","d">>), Absent }

RECURSIVE OutcomeList(_, _, _)
\* The outcomes for the submissions from position k on: one per submission
\* that is given a state.
OutcomeList(submissions, given, k) ==
    IF k > Len(submissions) THEN <<>>
    ELSE IF given[k] = Absent THEN OutcomeList(submissions, given, k + 1)
    ELSE <<SubmissionOutcome(submissions[k].name, given[k], N_REPLACED)>>
            \o OutcomeList(submissions, given, k + 1)

\* A pipeline put in place of the shipped one (as the tests do with
\* monkeypatch.setattr(app, "_run_grading_pipeline", ...)): any such list.
ReplacedOutcomes(submissions) ==
    { OutcomeList(submissions, given, 1) :
        given \in [DOMAIN submissions -> ReplacedStates] }

\* mkdir(parents=True, exist_ok=True) and the writes below APPDATA_DIR / title:
\* the assignment folder is dir from now on.
WriteDir(fs, title, dir) == (title :> dir) @@ fs

\* Line 375: what _run_grading_pipeline returns: the function as shipped, or
\* a replacement's list of outcomes.
Pipeline(submissions) ==
    IF pipeline = "shipped" THEN { _run_grading_pipeline(submissions) }
    ELSE ReplacedOutcomes(submissions)

\* Lines 351-358: the files of the submissions folder, sorted by lowered name.
FilesInOrder(dir) == SortedByName({ e \in dir : e.kind = "file" })

\* action_grade_submission on a selected assignment (lines 348-411)
GradeSubmission ==
    /\ assignment_title # <<>>
    /\ \E submissions \in FilesInOrder(submissions_dir) :
          \E outcomes \in Pipeline(submissions) :
             /\ appdata' = WriteDir(appdata, assignment_title,
                               [AssignmentDir(assignment_title) EXCEPT
                                   !.outputs = GradedOutputs(submissions, outcomes)])
             /\ last_outcomes' = outcomes
             /\ response' = [code |-> 200, totalSubmissions |-> Len(submissions)]
    /\ status_message' = "Grading summary generated"
    /\ request' = Request("grade", NullVal)
    /\ UNCHANGED notGrade

SubFile(name, readable, lines) ==
    [name |-> name, kind |-> "file", readable |-> readable, lines |-> lines]

SubDir(name) == [name |-> name, kind |-> "dir", readable |-> TRUE, lines |-> <<>>]

F_B ==
    SubFile(<<"B",".","t","x","t">>, TRUE,
            << <<"S","t","a","t","e",":"," ","D","o","n","e"," ">> >>)

F_a ==
    SubFile(<<"a",".","t","x","t">>, TRUE,
            << <<"h","i">>,
               <<"S","T","A","T","E",":","p","r","o","b","l","e","m">>,
               <<"s","t","a","t","e",":"," ","d","o","n","e">> >>)

F_c == SubFile(<<"c",".","p","d","f">>, FALSE, << <<"s","t","a","t","e",":","d","o","n","e">> >>)

F_d ==
    SubFile(<<"d",".","t","x","t">>, TRUE,
            << <<"s","t","a","t","e",":"," ","w","e","i","r","d">> >>)

F_e ==
    SubFile(<<"e",".","t","x","t">>, TRUE,
            << <<"s","t","a","t","e",":"," "," ">>,
               <<"s","t","a","t","e",":","d","o","n","e">> >>)

D_aa == SubDir(<<"a","a">>)

SubPool == { F_B, F_a, F_c, F_d, F_e, D_aa }

\* What an earlier grading, or a user, left under outputs.
StaleOutputs ==
    [exists |-> TRUE,
     notes |-> { NoteFile(S_done, <<"0","0","1">> \o TXT, NoteBody(F_d.name, N_DONE)),
                 NoteFile(S_problem, <<"0","0","4">> \o TXT, NoteBody(F_B.name, N_PROBLEM)),
                 NoteFile(S_review, <<"k","e","e","p",".","m","d">>, <<"x">>) },
     summary |-> Some(<<SUMMARY_HEADER, <<F_d.name, <<"0","0","1">>, S_done>> >>)]

HW_TITLE == <<"h","w","1">>

\* The web app with an assignment selected or not, its folders drawn.
InitApp ==
    /\ OCR_AVAILABLE = TRUE
    /\ SevIdle
    /\ ExtIdle
    /\ RunIdle
    /\ status_message = "Idle"
    /\ uploaded_files = [c \in CATEGORIES |-> <<>>]
    /\ max_concurrent = IntVal(1)
    /\ nitpickiness_level = IntVal(3)
    /\ grading_notes = StrVal(<<>>)
    /\ pipeline = "shipped"
    /\ last_outcomes = <<>>
    /\ request = NoRequest
    /\ response = NoResponse
    /\ \/ /\ assignment_title = <<>>
          /\ appdata = <<>>
       \/ /\ assignment_title = HW_TITLE
          /\ \E dir \in Listings(SubPool), out \in {NoOutputs, StaleOutputs} :
                appdata = WriteDir(<<>>, HW_TITLE,
                             [NoAssignment EXCEPT !.cats["submissions"] = Some(dir),
                                                  !.outputs = out])

NextApp ==
    \/ GradeNoAssignment
    \/ GradeSubmission

SpecApp == InitApp /\ [][NextApp]_vars

----------------------------------------------------------------------------
(* Web app requests (src/app.py 215-331, 414-444)                          *)

RECURSIVE JoinWords(_, _)
\* "_".join(filename.split()) on a text without blanks at its ends: every
\* run of white space from position k on becomes one "_".
JoinWords(t, k) ==
    IF k > Len(t) THEN <<>>
    ELSE IF IsSpace(t[k])
    THEN (IF IsSpace(t[k - 1]) THEN <<>> ELSE <<"_">>) \o JoinWords(t, k + 1)
    ELSE <<t[k]>> \o JoinWords(t, k + 1)

\* The characters werkzeug's _filename_ascii_strip_re keeps.
IsFilenameChar(c) == IsWordChar(c) \/ c \in {".", "-"}

RECURSIVE StripDots(_)
\* str.strip("._")
StripDots(t) ==
    IF t = <<>> THEN t
    ELSE IF Head(t) \in {".", "_"} THEN StripDots(Tail(t))
    ELSE IF t[Len(t)] \in {".", "_"} THEN StripDots(SubSeq(t, 1, Len(t) - 1))
    ELSE t

\* werkzeug.utils.secure_filename on a POSIX system: "/" becomes a blank,
\* words are joined by "_", other characters are dropped, dots and
\* underscores are stripped at both ends.
secure_filename(filename) ==
    StripDots(SelectSeq(
        JoinWords(Strip([k \in DOMAIN filename |->
                            IF filename[k] = "/" THEN " " ELSE filename[k]]), 1),
        IsFilenameChar))

\* (raw_title or "").strip() of the title field of a request, None if the
\* request has neither field.
TitleOf(raw_title) == IF raw_title = None THEN <<>> ELSE Strip(raw_title[1])

\* A response without a body the model keeps.
Answer(code) == [code |-> code, totalSubmissions |-> 0]

\* What no upload, select or clear request touches.
notFiles ==
    <<status_message, max_concurrent, nitpickiness_level, grading_notes, pipeline,
      last_outcomes, notApp>>

\* target_dir after file_storage.save(target_dir / filename) of one file.
SaveInto(dir, f) == { e \in dir : e.name # f.name } \cup {f}

RECURSIVE SaveAll(_, _, _)
\* Lines 276-283: the loop over files from position k on; a file whose
\* secured name is empty is skipped.
SaveAll(dir, upload, k) ==
    IF k > Len(upload) THEN dir
    ELSE IF secure_filename(upload[k].name) = <<>> THEN SaveAll(dir, upload, k + 1)
    ELSE SaveAll(SaveInto(dir, [upload[k] EXCEPT !.name = secure_filename(upload[k].name)]),
                 upload, k + 1)

\* Lines 275-283: stored, the secured names in upload order.
StoredNames(upload) ==
    SelectSeq([k \in DOMAIN upload |-> secure_filename(upload[k].name)],
              LAMBDA n : n # <<>>)

\* upload (lines 247-294): POST /upload/<category> with a title and files.
Upload(category, raw_title, upload) ==
    /\ request' = Request("upload", NullVal)
    /\ IF category \notin CATEGORIES
       THEN /\ response' = Answer(404)
            /\ UNCHANGED <<assignment_title, uploaded_files, appdata>>
       ELSE IF TitleOf(raw_title) = <<>> \/ secure_filename(TitleOf(raw_title)) = <<>>
       THEN /\ response' = Answer(400)
            /\ UNCHANGED <<assignment_title, uploaded_files, appdata>>
       ELSE /\ assignment_title' = secure_filename(TitleOf(raw_title))
            /\ IF upload = <<>>
               THEN /\ uploaded_files' = [uploaded_files EXCEPT ![category] = <<>>]
                    /\ response' = Answer(400)
                    /\ UNCHANGED appdata
               ELSE /\ appdata' =
                          WriteDir(appdata, assignment_title',
                              [AssignmentDir(assignment_title') EXCEPT
                                  !.cats[category] =
                                      Some(SaveAll(CategoryDir(assignment_title', category),
                                                   upload, 1))])
                    /\ uploaded_files' =
                          [uploaded_files EXCEPT ![category] = StoredNames(upload)]
                    /\ response' =
                          Answer(IF StoredNames(upload) = <<>> THEN 400 ELSE 200)
    /\ UNCHANGED notFiles

\* select_assignment (lines 215-244): POST /assignment/select.
SelectAssignment(raw_title) ==
    /\ request' = Request("select", NullVal)
    /\ IF TitleOf(raw_title) = <<>> \/ secure_filename(TitleOf(raw_title)) = <<>>
       THEN /\ response' = Answer(400)
            /\ UNCHANGED <<assignment_title, uploaded_files>>
       ELSE IF secure_filename(TitleOf(raw_title)) \notin DOMAIN appdata
       THEN /\ response' = Answer(404)
            /\ UNCHANGED <<assignment_title, uploaded_files>>
       ELSE /\ assignment_title' = secure_filename(TitleOf(raw_title))
            /\ uploaded_files' = [c \in CATEGORIES |-> <<>>]
            /\ response' = Answer(200)
    /\ UNCHANGED <<appdata, notFiles>>

\* Lines 311-327: the files of target_dir are unlinked; when nothing is left
\* in it the folder is removed, and then the assignment folder if that is
\* empty too (_prune_empty stops at APPDATA_DIR).
Cleared(fs, title, category) ==
    IF { e \in fs[title].cats[category][1] : e.kind # "file" } # {}
    THEN [fs EXCEPT ![title].cats[category] =
                        Some({ e \in fs[title].cats[category][1] : e.kind # "file" })]
    ELSE IF /\ \A c \in CATEGORIES \ {category} : fs[title].cats[c] = None
            /\ ~fs[title].outputs.exists
    THEN (IF DOMAIN fs = {title} THEN <<>> ELSE [t \in DOMAIN fs \ {title} |-> fs[t]])
    ELSE [fs EXCEPT ![title].cats[category] = None]

\* clear (lines 297-331): POST /clear/<category>.
Clear(category) ==
    /\ request' = Request("clear", NullVal)
    /\ IF category \notin CATEGORIES
       THEN /\ response' = Answer(404)
            /\ UNCHANGED <<uploaded_files, appdata>>
       ELSE IF assignment_title = <<>>
       THEN /\ response' = Answer(400)
            /\ UNCHANGED <<uploaded_files, appdata>>
       ELSE /\ appdata' = IF AssignmentDir(assignment_title).cats[category] # None
                          THEN Cleared(appdata, assignment_title, category)
                          ELSE appdata
            /\ uploaded_files' = [uploaded_files EXCEPT ![category] = <<>>]
            /\ response' = Answer(200)
    /\ UNCHANGED <<assignment_title, notFiles>>

\* isinstance(value, int): bool is a subclass of int.
IsInstanceInt(value) == value.type \in {"int", "bool"}

\* What no settings request touches.
notSettings ==
    <<assignment_title, status_message, uploaded_files, appdata, pipeline, last_outcomes,
      notApp>>

\* update_concurrency (lines 414-422): value is payload.get("maxConcurrent").
UpdateConcurrency(value) ==
    /\ request' = Request("concurrency", value)
    /\ IF ~IsInstanceInt(value) \/ ~(1 <= value.v /\ value.v <= 10)
       THEN /\ response' = Answer(400)
            /\ UNCHANGED max_concurrent
       ELSE /\ max_concurrent' = value
            /\ response' = Answer(200)
    /\ UNCHANGED <<nitpickiness_level, grading_notes, notSettings>>

\* update_nitpickiness (lines 425-433): value is payload.get("level").
UpdateNitpickiness(value) ==
    /\ request' = Request("nitpickiness", value)
    /\ IF ~IsInstanceInt(value) \/ ~(1 <= value.v /\ value.v <= 5)
       THEN /\ response' = Answer(400)
            /\ UNCHANGED nitpickiness_level
       ELSE /\ nitpickiness_level' = value
            /\ response' = Answer(200)
    /\ UNCHANGED <<max_concurrent, grading_notes, notSettings>>

\* update_notes (lines 436-444): value is the "notes" key of the payload,
\* None when the payload has no such key (payload.get("notes", "")).
UpdateNotes(value) ==
    /\ request' = Request("notes", IF value = None THEN NullVal ELSE value[1])
    /\ IF value # None /\ value[1].type # "str"
       THEN /\ response' = Answer(400)
            /\ UNCHANGED grading_notes
       ELSE /\ grading_notes' = IF value = None THEN StrVal(<<>>) ELSE value[1]
            /\ response' = Answer(200)
    /\ UNCHANGED <<max_concurrent, nitpickiness_level, notSettings>>

\* The JSON values the settings requests carry.
JsonValues ==
    { IntVal(0), IntVal(1), IntVal(5), IntVal(10), IntVal(11), BoolVal(TRUE),
      BoolVal(FALSE), StrVal(<<"5">>), JsonVal("float", 5, <<>>), NullVal }

\* The web app as imported; only settings requests are made.
InitSettings ==
    /\ OCR_AVAILABLE = TRUE
    /\ SevIdle
    /\ ExtIdle
    /\ RunIdle
    /\ AppIdle

UpdateSettings ==
    \/ \E value \in JsonValues : UpdateConcurrency(value)
    \/ \E value \in JsonValues : UpdateNitpickiness(value)
    \/ \E value \in { None } \cup { Some(j) : j \in JsonValues } : UpdateNotes(value)

NextSettings == UpdateSettings

SpecSettings == InitSettings /\ [][NextSettings]_vars

\* "hw2", and ways to type titles: blank, without a letter or digit, with a
\* path in front.
HW2_TITLE == <<"h","w","2">>

TitleArgs ==
    { None, Some(<<" ">>), Some(<<"!","!">>), Some(<<" ">> \o HW_TITLE),
      Some(<<".",".","/">> \o HW2_TITLE) }

\* A file whose name secure_filename empties.
U_dots == SubFile(<<".",".">>, TRUE, <<>>)

Uploads == { <<>>, <<U_dots>>, <<F_d, F_B>> }

CategoryArgs == { "submissions", "outputs" }

\* The web app as imported, with no assignment on disk or with "hw2".
WebAtImport(grading) ==
    /\ OCR_AVAILABLE = TRUE
    /\ SevIdle
    /\ ExtIdle
    /\ RunIdle
    /\ GlobalsAtImport
    /\ pipeline = grading
    /\ last_outcomes = <<>>
    /\ request = NoRequest
    /\ response = NoResponse
    /\ appdata \in { <<>>,
                     WriteDir(<<>>, HW2_TITLE,
                         [NoAssignment EXCEPT !.cats["submissions"] = Some({F_B})]) }

InitWeb == WebAtImport("shipped")

NextWeb ==
    \/ \E category \in CategoryArgs, raw_title \in TitleArgs, upload \in Uploads :
          Upload(category, raw_title, upload)
    \/ \E raw_title \in TitleArgs : SelectAssignment(raw_title)
    \/ \E category \in CategoryArgs : Clear(category)
    \/ GradeNoAssignment
    \/ GradeSubmission

SpecWeb == InitWeb /\ [][NextWeb]_vars

\* Gradings of "hw2" with a replaced pipeline, its submissions uploaded and
\* cleared in between.
InitRegrade == WebAtImport("replaced")

NextRegrade ==
    \/ \E upload \in Uploads : Upload("submissions", Some(HW2_TITLE), upload)
    \/ Clear("submissions")
    \/ GradeNoAssignment
    \/ GradeSubmission

SpecRegrade == InitRegrade /\ [][NextRegrade]_vars

\* The grading request with the pipeline as shipped or replaced.
InitPipe ==
    /\ OCR_AVAILABLE = TRUE
    /\ SevIdle
    /\ ExtIdle
    /\ RunIdle
    /\ status_message = "Idle"
    /\ uploaded_files = [c \in CATEGORIES |-> <<>>]
    /\ max_concurrent = IntVal(1)
    /\ nitpickiness_level = IntVal(3)
    /\ grading_notes = StrVal(<<>>)
    /\ pipeline \in {"shipped", "replaced"}
    /\ last_outcomes = <<>>
    /\ request = NoRequest
    /\ response = NoResponse
    /\ \/ /\ assignment_title = <<>>
          /\ appdata = <<>>
       \/ /\ assignment_title = HW_TITLE
          /\ \E dir \in SUBSET {F_a, F_B, F_c, D_aa} :
                appdata = WriteDir(<<>>, HW_TITLE,
                             [NoAssignment EXCEPT !.cats["submissions"] = Some(dir)])

SpecPipe == InitPipe /\ [][NextApp]_vars

----------------------------------------------------------------------------
(* Claims about the severity heuristic                                     *)

\* word occurs in t at position i as a whole word, letters compared without
\* regard to case.
WholeWordAt(word, t, i) ==
    /\ i + Len(word) - 1 <= Len(t)
    /\ \A k \in 1..Len(word) : LowerChar(t[i + k - 1]) = LowerChar(word[k])
    /\ i > 1 => ~IsWordChar(t[i - 1])
    /\ i + Len(word) <= Len(t) => ~IsWordChar(t[i + Len(word)])

WholeWordCount(word, t) ==
    Cardinality({ i \in 1..Len(t) : WholeWordAt(word, t, i) })

\* C8: for every analysis response text, major_count is the number of
\* case-insensitive whole-word occurrences of "major" and moderate_count that
\* of "moderate"; "majority", "moderately" and "minor" contribute nothing.
C8_SeverityCounts ==
    sev_out.called =>
        /\ sev_out.counts[1] = WholeWordCount(WORD_MAJOR, sev_text)
        /\ sev_out.counts[2] = WholeWordCount(WORD_MODERATE, sev_text)
        /\ sev_text \in { T_majority, T_moderately, T_minor,
                          T_majority \o <<" ">> \o T_minor,
                          T_moderately \o <<".">> \o T_majority }
              => sev_out.counts = <<0, 0>>

\* A counted text with one whole-word "major" next to a "majority".
C8_Witness ==
    /\ sev_out.called
    /\ sev_text = T_Major \o <<" ">> \o T_majority
    /\ sev_out.counts = <<1, 0>>

----------------------------------------------------------------------------
(* Claims about the extraction functions                                   *)

HasSymbol(t, sym) == \E k \in DOMAIN t : t[k] = sym

\* The pages the page loop reaches before it ends or raises.
NeedsRaster(p) == Len(Strip(p.text)) < 10

RasterFails(doc, max_pages) ==
    \E i \in 1..PageLimit(Len(doc.pages), max_pages) :
        NeedsRaster(doc.pages[i]) /\ ~doc.pages[i].raster_ok

\* A processed page whose text must come from OCR while OCR is unavailable.
OcrUnavailablePage(doc, max_pages, available) ==
    \E i \in 1..PageLimit(Len(doc.pages), max_pages) :
        NeedsRaster(doc.pages[i]) /\ ~available

\* A processed page whose text must come from OCR while OCR raises.
OcrRaisesPage(doc, max_pages, available) ==
    \E i \in 1..PageLimit(Len(doc.pages), max_pages) :
        NeedsRaster(doc.pages[i]) /\ available /\ doc.pages[i].ocr.raises

IsOcrText(img, available, v) ==
    /\ available
    /\ ~img.ocr.raises
    /\ v = img.ocr.text
    /\ Strip(v) # <<>>

\* C7 as stated: extract_image never raises and its result is one of exactly
\* two things: the "[UNREADABLE_IMAGE]" sentinel naming the file (whenever
\* the image cannot be read, OCR is unavailable, OCR fails or OCR returns
\* empty text) or the OCR text itself.
C7_TwoOutcomes ==
    (ext_in.kind = "image" /\ ext_out.fn = "main") =>
        LET img == ext_in.file
            r == ext_out.res
        IN  /\ ~r.raised
            /\ r.value = UNREADABLE_IMAGE(img.name) \/ IsOcrText(img, OCR_AVAILABLE, r.value)
            /\ (~img.opens \/ ~OCR_AVAILABLE \/ img.ocr.raises \/ Strip(img.ocr.text) = <<>>)
                  => r.value = UNREADABLE_IMAGE(img.name)

\* C7 amended: extract_image never raises and its result is one of exactly
\* three things: an "[ERROR] Failed to open image" marker naming the file
\* when the image cannot be opened; the "[UNREADABLE_IMAGE]" sentinel naming
\* the file when the image opens and OCR is unavailable, fails or returns
\* empty text; or the OCR text itself, then non-empty and no failure marker.
\* (pregrade_agent.py's copy returns the "[WARN] OCR failed" text, not the
\* sentinel, when OCR fails.)
C7_ThreeOutcomes ==
    (ext_in.kind = "image" /\ ext_out.fn # "none") =>
        LET img == ext_in.file
            r == ext_out.res
            main == ext_out.fn = "main"
            sentinel == IF main THEN UNREADABLE_IMAGE(img.name)
                        ELSE PA_UNREADABLE_IMAGE(img.name)
            openerr == IF main THEN ERROR_OPEN_IMAGE(img.name)
                       ELSE PA_ERROR_OPEN_IMAGE(img.name)
            failtext == _ocr_image_pil(img.ocr, OCR_AVAILABLE)
        IN  /\ ~r.raised
            /\ ~img.opens => r.value = openerr
            /\ img.opens =>
                /\ \/ r.value = sentinel
                   \/ IsOcrText(img, OCR_AVAILABLE, r.value)
                   \/ ~main /\ OCR_AVAILABLE /\ img.ocr.raises /\ r.value = failtext
                /\ (~OCR_AVAILABLE \/ Strip(img.ocr.text) = <<>>) /\ ~img.ocr.raises
                      => r.value = sentinel
                /\ (main /\ img.ocr.raises) => r.value = sentinel

\* main.py's function answered an image that cannot be opened.
C7_Witness ==
    /\ ext_in.kind = "image"
    /\ ext_out.fn = "main"
    /\ ~ext_in.file.opens
    /\ ext_out.res.value = ERROR_OPEN_IMAGE(ext_in.file.name)

----------------------------------------------------------------------------
(* Claims about discovery                                                  *)

\* main() is past the call of _discover_submission_units, which returned.
DiscoveryReturned ==
    \/ pc \in {"anon_map", "synth", "manifest", "dispatch", "gather", "persist"}
    \/ pc = "exit" /\ exit_code = Some(0)

\* An entry the spec lets through: not hidden, not named materials/outputs.
C5_Eligible(e) ==
    /\ e.name[1] # "."
    /\ ~(Len(e.name) >= 2 /\ e.name[1] = "_" /\ e.name[2] = "_")
    /\ \A r \in {N_materials, N_outputs} :
          ~(Len(e.name) = Len(r) /\ \A k \in DOMAIN r : LowerChar(e.name[k]) = r[k])

UnitNames == { units[k].original_name : k \in DOMAIN units }

\* C5: alias ids are 001, 002, ..., k with no gap and no reuse, in the
\* case-insensitive name order of the top-level entries that are neither
\* hidden nor named materials/outputs; an entry that is neither a file nor a
\* directory is skipped and the next accepted entry gets its id.
C5_DenseAliasIds ==
    /\ \A k \in DOMAIN units : units[k].alias_id = <<"0", "0", Digits[k + 1]>>
    /\ \A i, j \in DOMAIN units :
          i < j => /\ StrLeq(Lower(units[i].original_name), Lower(units[j].original_name))
                   /\ units[i].original_name # units[j].original_name
    /\ UnitNames \subseteq
          { e.name : e \in { x \in listing : C5_Eligible(x) /\ x.kind \in {"file", "dir"} } }
    /\ DiscoveryReturned =>
          UnitNames = { e.name : e \in { x \in listing :
                                           C5_Eligible(x) /\ x.kind \in {"file", "dir"} } }

\* Discovery returned two units around a skipped broken link: "amy.pdf" is
\* 001, "lnk" is skipped, "Zed" is 002.
C5_Witness ==
    /\ DiscoveryReturned
    /\ E_lnk \in listing
    /\ Len(units) = 2
    /\ units[1].original_name = E_amy.name
    /\ units[2].original_name = E_Zed.name
    /\ units[2].alias_id = <<"0", "0", "2">>

----------------------------------------------------------------------------
(* Claims about a run of main()                                            *)

\* The analysis calls in flight: issued and not yet returned or raised.
InFlight == { i \in DOMAIN tpc : tpc[i] = "calling" }

\* C1: at every moment the number of analysis calls in flight is at most
\* N = max(1, --max-async), for any number of aliases and any interleaving of
\* their completions.
C1_InFlightBounded ==
    Cardinality(InFlight) <= (IF max_async >= 1 THEN max_async ELSE 1)

C1_Witness ==
    /\ max_async = 2
    /\ Len(tpc) = 3
    /\ InFlight = {1, 3}
    /\ tpc[2] = "done"
    /\ call_end[2] = "returned"
    /\ sem_value = 0

\* The data rows of pregrading_results.csv.
DataRows == Tail(artifacts.pregrading_results.rows)

\* C2: pregrading_results.csv holds exactly one data row per discovered unit,
\* carrying that unit's own alias_id and original_name; no row is a
\* placeholder, none is duplicated, none is missing.
C2_OneRowPerUnit ==
    artifacts.pregrading_results.written =>
        /\ Len(DataRows) = Len(units)
        /\ \A k \in DOMAIN units :
              Cardinality({ r \in DOMAIN DataRows :
                              /\ DataRows[r][1] = units[k].alias_id
                              /\ DataRows[r][2] = units[k].original_name }) = 1
        /\ \A r \in DOMAIN DataRows :
              /\ DataRows[r][1] # <<"UNKNOWN">>
              /\ DataRows[r][2] # <<"UNKNOWN">>
              /\ \E k \in DOMAIN units : DataRows[r][1] = units[k].alias_id

C2_Witness ==
    /\ artifacts.pregrading_results.written
    /\ Len(units) = 3
    /\ \E i \in DOMAIN units : call_end[i] = "raised"
    /\ \E i \in DOMAIN units : calls[i] = 0 /\ result[i].agent_output[1] = "[ERROR] "

\* C3: the data rows are in discovery order, which is ascending alias_id,
\* whatever the order in which the aliases completed.
C3_RowsInDiscoveryOrder ==
    artifacts.pregrading_results.written =>
        /\ \A r \in DOMAIN DataRows :
              r \in DOMAIN units /\ DataRows[r][1] = units[r].alias_id
        /\ \A r, q \in DOMAIN DataRows :
              r < q => /\ StrLeq(DataRows[r][1], DataRows[q][1])
                       /\ DataRows[r][1] # DataRows[q][1]

C3_Witness ==
    /\ artifacts.pregrading_results.written
    /\ done_order = <<2, 3, 1>>
    /\ DataRows[1][1] = <<"0", "0", "1">>
    /\ DataRows[3][1] = <<"0", "0", "3">>

\* The files of alias i that the gatherer accepts.
SupportedFiles(i) ==
    { f \in norm_dirs[units[i].normalized_dir] :
        /\ \A k \in DOMAIN f.path : Lower(f.path[k]) \notin { N_materials, N_outputs }
        /\ Lower(Suffix(f.name)) \in
              { <<".","p","d","f">>, <<".","p","n","g">>, <<".","j","p","g">>,
                <<".","j","p","e","g">> } }

\* A document whose extraction raises within its page limit.
PdfBroken(doc, limit) == ~doc.opens \/ RasterFails(doc, Some(limit))

\* An extraction of alias i's prompt raises: the problem set, the solution
\* in use, or one of its own PDFs.
ExtractionFails(i) ==
    \/ ps_file # None /\ PdfBroken(ps_file[1], 15)
    \/ sol_effective # None /\ PdfBroken(sol_effective[1], 15)
    \/ \E f \in SupportedFiles(i) :
          Lower(Suffix(f.name)) = <<".","p","d","f">> /\ PdfBroken(f, 25)

\* Alias i's outcome is the 0/0 tuple under its own identity whose text
\* embeds the error.
IsErrorOutcome(i, etype, msg) ==
    /\ result[i].kind = "tuple"
    /\ result[i].alias_id = units[i].alias_id
    /\ result[i].original_name = units[i].original_name
    /\ result[i].major = 0
    /\ result[i].moderate = 0
    /\ result[i].agent_output[1] = "[ERROR] "
    /\ HasSymbol(result[i].agent_output, etype)
    /\ \A k \in DOMAIN msg : HasSymbol(result[i].agent_output, msg[k])

\* C4: when the extraction or the analysis of one alias raises, that alias
\* gets 0/0 and an agent_output embedding the error; every other alias still
\* gets its analysis call and the outcome its own call gives it; the batch is
\* never aborted.
C4_FailureIsolated ==
    /\ \A i \in DOMAIN tpc :
          tpc[i] = "done" =>
             /\ call_end[i] = "raised" =>
                   IsErrorOutcome(i, "RuntimeError", API_ERROR)
             /\ (SupportedFiles(i) # {} /\ ExtractionFails(i)) =>
                   /\ calls[i] = 0
                   /\ \E etype \in {"FileDataError", "RuntimeError"} :
                         IsErrorOutcome(i, etype, <<>>)
             /\ (SupportedFiles(i) # {} /\ ~ExtractionFails(i)) =>
                   /\ calls[i] = 1
                   /\ call_end[i] \in {"returned", "raised"}
                   /\ call_end[i] = "returned" =>
                         /\ result[i].kind = "tuple"
                         /\ result[i].alias_id = units[i].alias_id
                         /\ result[i].agent_output \in Responses
                         /\ result[i].major =
                               WholeWordCount(WORD_MAJOR, result[i].agent_output)
                         /\ result[i].moderate =
                               WholeWordCount(WORD_MODERATE, result[i].agent_output)
    /\ (pc = "exit" /\ artifacts.run_manifest.written) =>
          /\ exit_code = Some(0)
          /\ artifacts.pregrading_results.written
          /\ Len(tpc) = Len(units)
          /\ \A i \in DOMAIN tpc : tpc[i] = "done"

C4_Witness ==
    /\ pc = "exit"
    /\ exit_code = Some(0)
    /\ \E i, j, k \in DOMAIN tpc :
          /\ call_end[i] = "raised"
          /\ call_end[j] = "returned" /\ result[j].major = 2
          /\ calls[k] = 0 /\ ExtractionFails(k) /\ SupportedFiles(k) # {}

\* C9: an alias with no file of a supported extension gets the fixed "no
\* supported files" text with counts 0/0, and no analysis call is made for
\* it.
C9_NoSupportedFiles ==
    \A i \in DOMAIN tpc :
        SupportedFiles(i) = {} =>
           /\ calls[i] = 0
           /\ tpc[i] # "calling"
           /\ tpc[i] = "done" =>
                 /\ result[i].kind = "tuple"
                 /\ result[i].alias_id = units[i].alias_id
                 /\ result[i].original_name = units[i].original_name
                 /\ result[i].major = 0
                 /\ result[i].moderate = 0
                 /\ result[i].agent_output =
                       <<"[No supported files (PDF/PNG/JPG) found for this submission.]">>

C9_Witness ==
    /\ artifacts.pregrading_results.written
    /\ \E i \in DOMAIN tpc :
          /\ units[i].original_name = E_carl.name
          /\ SupportedFiles(i) = {}
          /\ calls[i] = 0
          /\ DataRows[i][5] =
                <<"[No supported files (PDF/PNG/JPG) found for this submission.]">>
    /\ \E j \in DOMAIN tpc : calls[j] = 1

\* The scan of the homework root went through every entry.
ScanCompleted == pc \notin {"start", "discover"} /\ idx > Len(entries)

\* C10: when the homework root exists but no unit is discovered, no analysis
\* call is made and the run ends with exit code 0, run_manifest.json and a
\* header-only pregrading_results.csv written.
C10_ZeroUnits ==
    (root_ok /\ ScanCompleted /\ units = <<>>) =>
        /\ \A i \in DOMAIN calls : calls[i] = 0
        /\ InFlight = {}
        /\ pc # "exit" => ENABLED Next
        /\ pc = "exit" =>
              /\ exit_code = Some(0)
              /\ artifacts.run_manifest.written
              /\ artifacts.run_manifest.rows[1].discovered = <<>>
              /\ artifacts.pregrading_results.written
              /\ artifacts.pregrading_results.rows =
                    << << <<"alias_id">>, <<"original_name">>, <<"major_count">>,
                          <<"moderate_count">>, <<"agent_output">> >> >>

C10_Witness ==
    /\ root_ok
    /\ ScanCompleted
    /\ units = <<>>
    /\ E_lnk \in listing
    /\ pc = "exit"
    /\ exit_code = Some(0)
    /\ Len(artifacts.pregrading_results.rows) = 1

----------------------------------------------------------------------------
(* Claims about exit codes and the survival of degraded runs               *)

NothingWritten ==
    /\ ~artifacts.anonymization_map.written
    /\ ~artifacts.run_manifest.written
    /\ ~artifacts.pregrading_results.written

\* C11 as stated: a homework root that is missing or not a directory ends
\* the run with exit code 2 before anything is created (no output directory,
\* no artifact, no generation or analysis call, no later stage); every other
\* run ends with exit code 0.
C11_ExitCodes ==
    pc = "exit" =>
        IF ~root_ok
        THEN /\ exit_code = Some(2)
             /\ \A e \in listing : e.name # N_outputs
             /\ norm_dirs = <<>>
             /\ NothingWritten
             /\ gen_calls = 0
             /\ units = <<>>
             /\ tpc = <<>>
        ELSE exit_code = Some(0)

\* C14 as stated: discovery never raises because of a top-level entry whose
\* copy fails; the entry is skipped, the other entries are still discovered
\* and the run goes on.
C14_UnreadableSkipped ==
    /\ exit_code = None
    /\ pc = "anon_map" =>
          UnitNames = { e.name : e \in { x \in listing :
                          C5_Eligible(x) /\ x.kind \in {"file", "dir"} /\ x.readable } }

\* The ways synthesize_solution_if_missing fails.
SynthesisFailed ==
    synth_outcome \in {"no_problem", "extract_raised", "call_raised", "write_failed"}

WarningTopic(w) ==
    CASE w = "Problem set not found at {ps_path}." -> "problem_set"
      [] w = "No author-provided solutions found; synthesized at {sol_effective}."
            -> "synthesized"
      [] w = "Solutions not found and synthesis failed; proceeding without solutions."
            -> "no_solution"
      [] OTHER -> "other"

WarnedTopics ==
    { WarningTopic(artifacts.run_manifest.rows[1].warnings[k]) :
        k \in DOMAIN artifacts.run_manifest.rows[1].warnings }

\* The --class path was given and names no usable plain-text file.
ClassInfoDegraded ==
    /\ class_info # None
    /\ \/ ~class_info[1].exists
       \/ ~class_info[1].is_file
       \/ Lower(Suffix(class_info[1].name)) # <<".","t","x","t">>

\* C13 as stated: every degraded condition of a run (OCR unavailable, no
\* solution with synthesis unavailable or failing, class-context file missing
\* or not plain text) has an entry in the warnings written to
\* run_manifest.json.
C13_DegradedAllWarned ==
    artifacts.run_manifest.written =>
        /\ ~OCR_AVAILABLE => "ocr_unavailable" \in WarnedTopics
        /\ SynthesisFailed => "no_solution" \in WarnedTopics
        /\ ClassInfoDegraded => "class_info" \in WarnedTopics

----------------------------------------------------------------------------
(* Claims about the web app's grading request                              *)

SubmissionFiles == { e \in submissions_dir : e.kind = "file" }

Contains(t, x) == \E i \in 1..(Len(t) - Len(x) + 1) : SubSeq(t, i, i + Len(x) - 1) = x

ThreeDigits(k) == <<"0", "0", IntStr(k)[1]>>

TxtNotesNamed(id) ==
    { n \in outputs_dir.notes : n.state \in Range(OUTPUT_STATES) /\ n.name = id \o TXT }

\* C15: after a grading request on a selected assignment, summary.csv holds
\* the header and exactly one row [submission_name, id, state] per file of
\* the submissions folder, the ids being 001, 002, ... in case-insensitive
\* name order, and for every row there is exactly one note file
\* <state>/<id>.txt, whose body contains the submission's name and the notes
\* of its pipeline outcome.
C15_SummaryAndNotes ==
    response.code = 200 =>
        /\ assignment_title # <<>>
        /\ outputs_dir.exists
        /\ outputs_dir.summary # None
        /\ Len(outputs_dir.summary[1]) = 1 + Cardinality(SubmissionFiles)
        /\ outputs_dir.summary[1][1] = SUMMARY_HEADER
        /\ { outputs_dir.summary[1][k][1] : k \in 2..Len(outputs_dir.summary[1]) }
              = { f.name : f \in SubmissionFiles }
        /\ \A k \in 1..Cardinality(SubmissionFiles) :
              /\ Len(outputs_dir.summary[1][k + 1]) = 3
              /\ outputs_dir.summary[1][k + 1][2] = ThreeDigits(k)
              /\ outputs_dir.summary[1][k + 1][3] \in {S_done, S_review, S_problem}
              /\ \A m \in 1..Cardinality(SubmissionFiles) :
                    k < m => StrLeq(Lower(outputs_dir.summary[1][k + 1][1]),
                                    Lower(outputs_dir.summary[1][m + 1][1]))
              /\ Cardinality(TxtNotesNamed(ThreeDigits(k))) = 1
              /\ \A n \in TxtNotesNamed(ThreeDigits(k)) :
                    /\ n.state = outputs_dir.summary[1][k + 1][3]
                    /\ Contains(n.body, outputs_dir.summary[1][k + 1][1])
                    /\ \E f \in SubmissionFiles :
                          /\ f.name = outputs_dir.summary[1][k + 1][1]
                          /\ Contains(n.body, PipelineOutcome(f).notes)

C15_Witness ==
    /\ response.code = 200
    /\ submissions_dir = {F_a, F_B, F_c}
    /\ outputs_dir.summary[1][2] = <<F_a.name, <<"0","0","1">>, S_problem>>
    /\ outputs_dir.summary[1][3] = <<F_B.name, <<"0","0","2">>, S_done>>
    /\ NoteFile(S_review, <<"0","0","3">> \o TXT, NoteBody(F_c.name, N_REVIEW))
          \in outputs_dir.notes
    /\ NoteFile(S_review, <<"k","e","e","p",".","m","d">>, <<"x">>) \in outputs_dir.notes

----------------------------------------------------------------------------
(* Claims about the homework root                                          *)

\* The components of the argument as typed, and where it points when it is
\* used as given.
GivenBase(p) ==
    IF p.anchor = "rel" THEN CWD ELSE IF p.anchor = "home" THEN HOME ELSE <<>>

UsedAsGiven(p) == hw_root = Some(Normalise(GivenBase(p), p.parts))

----------------------------------------------------------------------------
(* Claims about the pages of an extracted document                         *)

\* OCR succeeded on the page: it was available, did not raise and gave text
\* that is not blank.
OcrSucceeds(p, available) == available /\ ~p.ocr.raises /\ Strip(p.ocr.text) # <<>>

\* The page text the rule of C17 prescribes; sentinel is the running copy's
\* "[UNREADABLE_PAGE] ..." text.
PrescribedText(p, available, sentinel) ==
    IF ~NeedsRaster(p) THEN Strip(p.text)
    ELSE IF OcrSucceeds(p, available) THEN p.ocr.text
    ELSE sentinel

SentinelOf(fn) == IF fn = "pa" THEN PA_UNREADABLE_PAGE ELSE UNREADABLE_PAGE

PagesProcessed == 1..PageLimit(Len(ext_in.file.pages), ext_in.max_pages)

\* C17: every processed page carries its embedded text when that has at
\* least 10 characters after trimming, else the OCR text when OCR succeeded,
\* else the "[UNREADABLE_PAGE]" sentinel; ocr_pages_used is the number of
\* pages whose text came from a successful OCR.
C17_PageTextRule ==
    (ext_in.kind = "pdf" /\ ext_out.fn # "none" /\ ~ext_out.res.raised) =>
        /\ ext_out.res.value[1] =
              Concat([i \in PagesProcessed |->
                         PagePart(i, Len(ext_in.file.pages),
                                  PrescribedText(ext_in.file.pages[i], OCR_AVAILABLE,
                                                 SentinelOf(ext_out.fn)))])
        /\ ext_out.res.value[3] =
              Cardinality({ i \in PagesProcessed :
                              /\ NeedsRaster(ext_in.file.pages[i])
                              /\ OcrSucceeds(ext_in.file.pages[i], OCR_AVAILABLE) })

PAGE_HEADER == "\n--- PAGE "

HeaderPositions(t) == { k \in DOMAIN t : t[k] = PAGE_HEADER }

SectionNumber(t, k) == Cardinality({ m \in HeaderPositions(t) : m <= k })

\* C18: a returned extraction holds exactly min(total, max_pages) sections
\* (total without a limit), the i-th opened by "--- PAGE i/total ---" with
\* total the document's page count and followed by the text of page i; the
\* returned total_pages is that page count and 0 <= ocr_pages_used <= the
\* number of sections.
C18_SectionsAndCounts ==
    (ext_in.kind = "pdf" /\ ext_out.fn # "none" /\ ~ext_out.res.raised) =>
        /\ Cardinality(HeaderPositions(ext_out.res.value[1])) =
              IF ext_in.max_pages = None \/ Len(ext_in.file.pages) <= ext_in.max_pages[1]
              THEN Len(ext_in.file.pages)
              ELSE ext_in.max_pages[1]
        /\ ext_out.res.value[1] # <<>> => ext_out.res.value[1][1] = PAGE_HEADER
        /\ \A k \in HeaderPositions(ext_out.res.value[1]) :
              /\ SubSeq(ext_out.res.value[1], k + 1, k + 4) =
                    <<IntStr(SectionNumber(ext_out.res.value[1], k))[1], "/",
                      IntStr(Len(ext_in.file.pages))[1], " ---\n">>
              /\ ~NeedsRaster(ext_in.file.pages[SectionNumber(ext_out.res.value[1], k)]) =>
                    SubSeq(ext_out.res.value[1], k + 5, k + 4 + Len(T10)) = T10
        /\ ext_out.res.value[2] = Len(ext_in.file.pages)
        /\ ext_out.res.value[3] >= 0
        /\ ext_out.res.value[3] <= Cardinality(HeaderPositions(ext_out.res.value[1]))

C18_Witness ==
    /\ ext_in.kind = "pdf"
    /\ ext_out.fn = "main"
    /\ ~ext_out.res.raised
    /\ Len(ext_in.file.pages) = 2
    /\ ext_in.max_pages = Some(1)
    /\ ext_in.file.pages[1].text = <<>>
    /\ ext_in.file.pages[1].ocr = OcrGood
    /\ OCR_AVAILABLE
    /\ ext_out.res.value[2] = 2
    /\ ext_out.res.value[3] = 1
    /\ ext_out.res.value[1] =
          <<PAGE_HEADER, "1", "/", "2", " ---\n">> \o OcrGood.text \o <<"\n">>

----------------------------------------------------------------------------
(* Claims about the analysis call and the admission gate                   *)

\* Alias i has a supported file and none of the extractions of its prompt
\* raises.
Callable(i) == SupportedFiles(i) # {} /\ ~ExtractionFails(i)

\* C19: an alias with a supported file whose gathering and extraction do not
\* raise gets exactly one analysis call over the run: one by the time its
\* procedure has ended, and never a second one, whether the call returned or
\* raised.
C19_ExactlyOneCall ==
    \A i \in DOMAIN tpc :
        /\ calls[i] <= 1
        /\ (pc = "exit" /\ exit_code = Some(0)) => tpc[i] = "done"
        /\ (tpc[i] = "done" /\ Callable(i)) =>
              calls[i] = 1 /\ call_end[i] \in {"returned", "raised"}
        /\ call_end[i] # "none" => calls[i] = 1 /\ tpc[i] = "done"

C19_Witness ==
    /\ pc = "exit"
    /\ exit_code = Some(0)
    /\ \E i, j \in DOMAIN tpc :
          /\ Callable(i) /\ call_end[i] = "raised" /\ calls[i] = 1
          /\ Callable(j) /\ call_end[j] = "returned" /\ calls[j] = 1
    /\ \E k \in DOMAIN tpc : ~Callable(k) /\ calls[k] = 0

\* C20 as stated: a slot is acquired, or waited for, only by an alias whose
\* gathering, extraction and prompt assembly are done, so an alias without
\* supported files or with a failing extraction is never found queueing.
C20_SlotOnlyForTheCall ==
    \A i \in DOMAIN tpc : tpc[i] \in {"waiting", "woken"} => Callable(i)

GateFull == sem_value = 0 \/ sem_waiters # <<>>

\* The first step of coroutine i.
Enters(i) == i \in DOMAIN tpc /\ tpc[i] = "created" /\ tpc'[i] # "created"

\* C20 amended: entering the gate is the first thing every coroutine does,
\* one without supported files included: with the gate full it queues, having
\* gathered, extracted and called nothing; with a free slot it takes the slot
\* and holds it through gathering, extraction, prompt assembly and the call.
\* The slots taken are those of the coroutines awaiting their call and of the
\* woken waiters.
C20_GateAroundTheProcedure ==
    /\ [](\A i \in DOMAIN tpc :
             /\ tpc[i] \in {"waiting", "woken"} =>
                   /\ calls[i] = 0
                   /\ prompt[i] = <<>>
                   /\ result[i] = Pending
                   /\ \E k \in DOMAIN sem_waiters : sem_waiters[k] = i
             /\ tpc[i] = "calling" => calls[i] = 1 /\ Callable(i))
    /\ [](pc = "gather" =>
             sem_value + Cardinality({ i \in DOMAIN tpc : tpc[i] \in {"calling", "woken"} })
                = Max(1, max_async))
    /\ [][\A i \in DOMAIN tpc :
             Enters(i) =>
                IF GateFull
                THEN tpc'[i] = "waiting" /\ sem_value' = sem_value
                ELSE \/ tpc'[i] = "calling" /\ sem_value' = sem_value - 1
                     \/ tpc'[i] = "done" /\ sem_value' = sem_value /\ ~Callable(i)]_vars

C20_Witness ==
    /\ \E i \in DOMAIN tpc :
          /\ SupportedFiles(i) = {}
          /\ tpc[i] = "waiting"
          /\ sem_waiters = <<i>>
    /\ \E j \in DOMAIN tpc : tpc[j] = "calling"
    /\ sem_value = 0

\* The semaphore of the run exists: main is at or past line 627.
GateCreated == pc \in {"gather", "persist"} \/ (pc = "exit" /\ exit_code = Some(0))

SlotHolders == { i \in DOMAIN tpc : tpc[i] \in {"calling", "woken"} }

\* C21: the free slots are always between 0 and N = max(1, --max-async);
\* every slot that is not free is held by exactly one coroutine that has not
\* ended (so each acquired slot is given back once, however the procedure
\* ended), and once every alias has its outcome all N slots are free and
\* nobody queues.
C21_SlotsReturned ==
    GateCreated =>
        /\ sem_value >= 0
        /\ sem_value <= Max(1, max_async)
        /\ sem_value + Cardinality(SlotHolders) = Max(1, max_async)
        /\ \A i \in DOMAIN tpc : tpc[i] = "done" => i \notin SlotHolders
        /\ (\A i \in DOMAIN tpc : tpc[i] = "done") =>
              sem_value = Max(1, max_async) /\ sem_waiters = <<>>

C21_Witness ==
    /\ pc = "exit"
    /\ max_async = 2
    /\ sem_value = 2
    /\ Len(tpc) = 3
    /\ \E i, j, k \in DOMAIN tpc :
          /\ call_end[i] = "returned"
          /\ call_end[j] = "raised"
          /\ SupportedFiles(k) = {} /\ result[k].agent_output = NO_SUPPORTED_FILES

\* The scheduling of a run: the event loop runs every step that is due, and
\* every analysis call in flight ends, by returning or by raising.
Fairness ==
    /\ WF_vars(Next)
    /\ \A i \in 1..MaxEntries : WF_vars(CallReturn(i) \/ CallRaise(i))

LivePool == { E_amy, E_dan, E_carl, E_eve }

\* Runs of main() chosen among those of Init: every number of units up to
\* MaxEntries under every --max-async with the materials in place, and the
\* runs that end or degrade before dispatch.
InitLive ==
    /\ SevIdle
    /\ ExtIdle
    /\ AppIdle
    /\ RootIdle
    /\ GatherIdle
    /\ pc = "start"
    /\ out_arg = None
    /\ NotStarted
    /\ \E env \in Environments :
          /\ OCR_AVAILABLE = env.ocr
          /\ ps_file = env.ps
          /\ sol_file = env.sol
          /\ class_info = env.class
          /\ \/ /\ env.sol # None
                /\ root_ok = TRUE
                /\ max_async \in 0..MaxAsyncArg
                /\ listing \in Listings(LivePool)
             \/ /\ root_ok = TRUE
                /\ max_async = 1
                /\ listing \in { {E_amy, E_lnk}, {E_bad} }
             \/ /\ env.sol # None
                /\ root_ok = FALSE
                /\ max_async = 1
                /\ listing = {}

SpecLive == InitLive /\ [][Next]_vars /\ Fairness

\* C22: under that scheduling every coroutine created at dispatch eventually
\* holds an outcome, the run reaches the writing of the results and ends;
\* in particular the dispatcher never comes to a state without a next step.
C22_EveryAliasServed ==
    /\ (pc = "gather") ~> (pc = "persist" /\ \A i \in DOMAIN tpc : tpc[i] = "done")
    /\ (pc = "gather") ~> (pc = "exit" /\ artifacts.pregrading_results.written)
    /\ \A i \in 1..MaxEntries :
          (i \in DOMAIN tpc /\ tpc[i] \in {"created", "waiting", "woken", "calling"})
             ~> (i \in DOMAIN tpc /\ tpc[i] = "done" /\ result[i] # Pending)

C22_Witness ==
    /\ pc = "persist"
    /\ max_async = 1
    /\ Len(tpc) = 3
    /\ Len(done_order) = 3
    /\ \A i \in DOMAIN tpc : tpc[i] = "done" /\ result[i] # Pending
    /\ \E i \in DOMAIN tpc : call_end[i] = "raised"

\* Some coroutine of the batch has no outcome yet.
SomeAliasUnserved == \E i \in DOMAIN tpc : tpc[i] # "done" \/ result[i] = Pending

\* C23: while an alias is pending or in flight the results file does not
\* exist and holds no row; it is written only from the state in which every
\* discovered alias has its outcome, and then with one row per alias.
C23_ResultsAfterAllOutcomes ==
    /\ [](SomeAliasUnserved =>
             /\ ~artifacts.pregrading_results.written
             /\ artifacts.pregrading_results.rows = <<>>
             /\ results = <<>>)
    /\ [](artifacts.pregrading_results.written =>
             /\ Len(tpc) = Len(units)
             /\ Len(artifacts.pregrading_results.rows) = 1 + Len(units)
             /\ \A i \in DOMAIN tpc : tpc[i] = "done" /\ result[i] # Pending)
    /\ [][artifacts'.pregrading_results # artifacts.pregrading_results =>
             /\ pc = "persist"
             /\ \A i \in DOMAIN units : i \in DOMAIN tpc /\ tpc[i] = "done"]_vars

C23_Witness ==
    /\ artifacts.pregrading_results.written
    /\ Len(units) = 3
    /\ Len(artifacts.pregrading_results.rows) = 4
    /\ \E i, j \in DOMAIN tpc : call_end[i] = "raised" /\ call_end[j] = "returned"
    /\ done_order # <<1, 2, 3>>

----------------------------------------------------------------------------
(* Claims about the stages of a run and what they leave behind             *)

\* The position of main() in its text.
PcRank(p) ==
    CASE p = "start" -> 0
      [] p = "discover" -> 1
      [] p = "discover_loop" -> 2
      [] p = "anon_map" -> 3
      [] p = "synth" -> 4
      [] p = "manifest" -> 5
      [] p = "dispatch" -> 6
      [] p = "gather" -> 7
      [] p = "persist" -> 8
      [] p = "exit" -> 9

\* 1 Discover, 2 Synthesize, 3 Dispatch, 4 Aggregate and Persist (the rows
\* are built and written by the same statements), 0 before and 5 after.
StageOf(p) ==
    CASE p = "start" -> 0
      [] p \in {"discover", "discover_loop", "anon_map"} -> 1
      [] p \in {"synth", "manifest"} -> 2
      [] p \in {"dispatch", "gather"} -> 3
      [] p = "persist" -> 4
      [] p = "exit" -> 5

\* C24: a run goes through Discover, Synthesize, Dispatch, Aggregate and
\* Persist in this order: main() only moves forward, a stage begins when the
\* one before it is finished, a failure ends the run for good, and nothing
\* is entered a second time.
C24_StagesInOrder ==
    /\ [][/\ StageOf(pc') >= StageOf(pc)
          /\ pc' # pc => PcRank(pc') > PcRank(pc)
          /\ pc' = pc => pc \in {"discover_loop", "gather"}
          /\ pc # "exit"]_vars
    /\ [](StageOf(pc) \in {2, 3, 4} => idx > Len(entries) /\ exit_code = None)
    /\ [](StageOf(pc) \in {3, 4} => synth_outcome # "none" /\ gen_calls <= 1)
    /\ [](pc = "persist" =>
             /\ Len(tpc) = Len(units)
             /\ \A i \in DOMAIN tpc : tpc[i] = "done"
             /\ results = result)
    /\ [](exit_code # None => pc = "exit")
    /\ []((pc = "exit" /\ exit_code = Some(0)) => artifacts.pregrading_results.written)

C24_Witness ==
    /\ pc = "exit"
    /\ exit_code = Some(0)
    /\ synth_outcome = "generated"
    /\ gen_calls = 1
    /\ Len(units) = 2
    /\ Len(done_order) = 2
    /\ artifacts.pregrading_results.written

RunSucceededOrRunning == pc = "exit" => exit_code = Some(0)

\* C25 as stated: none of the three artifacts is written before dispatch
\* starts; all are written after Dispatch and Aggregate have completed.
C25_AllWrittenAfterDispatch ==
    \A a \in {"anonymization_map", "run_manifest", "pregrading_results"} :
        artifacts[a].written =>
            /\ pc \in {"persist", "exit"}
            /\ \A i \in DOMAIN tpc : tpc[i] = "done"

\* C25 amended: the anonymization map is written as soon as discovery has
\* returned and the manifest right after the synthesis step, both before
\* dispatch starts; only the results file is written after every outcome is
\* in.  A written artifact is not written again, and a run that exits with
\* status 0 leaves all three.
C25_MapAndManifestBeforeDispatch ==
    /\ [](artifacts.anonymization_map.written <=>
             (PcRank(pc) >= PcRank("synth") /\ RunSucceededOrRunning))
    /\ [](artifacts.run_manifest.written <=>
             (PcRank(pc) >= PcRank("dispatch") /\ RunSucceededOrRunning))
    /\ [](artifacts.pregrading_results.written <=> (pc = "exit" /\ exit_code = Some(0)))
    /\ [][\A a \in {"anonymization_map", "run_manifest", "pregrading_results"} :
             artifacts[a].written => artifacts'[a] = artifacts[a]]_vars

C25_Witness ==
    /\ pc = "gather"
    /\ artifacts.anonymization_map.written
    /\ Len(artifacts.anonymization_map.rows) = 3
    /\ artifacts.run_manifest.written
    /\ ~artifacts.pregrading_results.written
    /\ \E i \in DOMAIN tpc : tpc[i] = "created"
    /\ \A i \in DOMAIN tpc : calls[i] = 0

\* C26: the generation capability is called at most once in a run, and only
\* by the synthesis step of a run whose solutions path holds no file and
\* whose problem set exists and can be read; with a solution in place it is
\* never called.
C26_GenerationAtMostOnce ==
    /\ [](gen_calls \in {0, 1})
    /\ [](gen_calls = 1 =>
             /\ sol_file = None
             /\ ps_file # None
             /\ ps_file[1].opens
             /\ synth_outcome \in {"call_raised", "write_failed", "generated"})
    /\ []((sol_file # None \/ ps_file = None) => gen_calls = 0)
    /\ []((sol_file = None /\ ps_file # None /\ PcRank(pc) >= PcRank("manifest")
             /\ RunSucceededOrRunning /\ ~PdfBroken(ps_file[1], MaxPagesSynthesis))
             => gen_calls = 1)
    /\ [][gen_calls' # gen_calls => pc = "synth" /\ pc' = "manifest"]_vars

C26_Witness ==
    /\ pc = "exit"
    /\ exit_code = Some(0)
    /\ gen_calls = 1
    /\ synth_outcome = "call_raised"
    /\ sol_effective = None
    /\ Len(units) >= 1

----------------------------------------------------------------------------
(* Claims about the gatherer and the prompt                                *)

ALLOWED_EXTENSIONS ==
    { <<"p","d","f">>, <<"p","n","g">>, <<"j","p","g">>, <<"j","p","e","g">> }

\* The name ends with a dot and an allowed extension in any letter case,
\* after a stem that is not empty.
HasAllowedExtension(name) ==
    \E ext \in ALLOWED_EXTENSIONS :
        /\ Len(name) > Len(ext) + 1
        /\ name[Len(name) - Len(ext)] = "."
        /\ Lower(SubSeq(name, Len(name) - Len(ext) + 1, Len(name))) = ext

UnderReservedDir(f) ==
    \E k \in DOMAIN f.path :
        Lower(f.path[k]) \in { <<"m","a","t","e","r","i","a","l","s">>,
                               <<"o","u","t","p","u","t","s">> }

\* C27: the gatherer returns, each once, exactly the files of the tree whose
\* extension is pdf, png, jpg or jpeg in any letter case and that have no
\* directory named materials or outputs (in any letter case) above them, at
\* any depth, ordered by lowered file name.
C27_GathererExact ==
    files # None =>
        /\ Range(files[1]) =
              { f \in normalized_dir : HasAllowedExtension(f.name) /\ ~UnderReservedDir(f) }
        /\ Len(files[1]) = Cardinality(Range(files[1]))
        /\ \A i, j \in DOMAIN files[1] :
              i < j => StrLeq(Lower(files[1][i].name), Lower(files[1][j].name))

C27_Witness ==
    /\ normalized_dir = { GFile(<<>>, <<"a",".","p","d","f">>),
                     GFile(<<D_hw>>, <<"B",".","P","D","F">>),
                     GFile(<<D_hw, D_Materials, D_hw>>, <<"c",".","p","n","g">>) }
    /\ files = Some(<< GFile(<<>>, <<"a",".","p","d","f">>),
                       GFile(<<D_hw>>, <<"B",".","P","D","F">>) >>)

SUBMISSION_TAGS == { "\n=== SUBMISSION (PDF): ", "\n=== SUBMISSION (IMAGE): " }

TagPositions(t) == { k \in DOMAIN t : t[k] \in SUBMISSION_TAGS }

\* Where the n-th block of the prompt t starts; past its end if there is none.
BlockStart(t, n) ==
    IF n > Cardinality(TagPositions(t)) THEN Len(t) + 1
    ELSE CHOOSE k \in TagPositions(t) :
             Cardinality({ m \in TagPositions(t) : m < k }) = n - 1

IsPdfName(name) ==
    /\ Len(name) > 4
    /\ Lower(SubSeq(name, Len(name) - 3, Len(name))) = <<".","p","d","f">>

\* The tag line of f's block.
BlockHead(f) ==
    IF IsPdfName(f.name)
    THEN <<"\n=== SUBMISSION (PDF): ">> \o f.name \o <<" ===\n[meta] pages=">>
    ELSE <<"\n=== SUBMISSION (IMAGE): ">> \o f.name \o <<" ===\n">>

\* What the extraction of f gives on this machine.
ExtractedText(f) ==
    IF IsPdfName(f.name)
    THEN extract_pdf_text_with_ocr_fallback(f, Some(25), OCR_AVAILABLE).value[1]
    ELSE extract_image_text(f, OCR_AVAILABLE).value

\* The n-th block of t is tagged with f's name and kind and holds text.
BlockHolds(t, n, f, text) ==
    /\ SubSeq(t, BlockStart(t, n), BlockStart(t, n) + Len(BlockHead(f)) - 1) = BlockHead(f)
    /\ Contains(SubSeq(t, BlockStart(t, n) + Len(BlockHead(f)), BlockStart(t, n + 1) - 1),
                text)

\* The prompt t holds one block per file of sub_files, in that order.
OneBlockPerFile(t, sub_files) ==
    /\ Cardinality(TagPositions(t)) = Len(sub_files)
    /\ \A n \in DOMAIN sub_files :
          BlockHolds(t, n, sub_files[n], ExtractedText(sub_files[n]))

\* The problem set and the solution in use can be read.
MaterialsReadable ==
    /\ ps_file # None => ~PdfBroken(ps_file[1], 15)
    /\ sol_effective # None => ~PdfBroken(sol_effective[1], 15)

\* Coroutine i is past lines 440-489.
BodyRan(i) == i \in DOMAIN tpc /\ tpc[i] \in {"calling", "done"}

\* The part of C28 that holds: the prompt of a call that was issued holds
\* one block per gathered file, in gather order, tagged with the file's name
\* and kind and holding its extracted text; an image without OCR gives the
\* "[UNREADABLE_IMAGE]" text.
PromptBlocksOfIssuedCalls ==
    \A i \in DOMAIN tpc :
        calls[i] > 0 =>
            /\ \E sub_files \in SortedByName(SupportedFiles(i)) :
                  OneBlockPerFile(prompt[i], sub_files)
            /\ \A f \in SupportedFiles(i) :
                  ~IsPdfName(f.name) /\ f.opens /\ ~OCR_AVAILABLE =>
                      Contains(prompt[i], UNREADABLE_IMAGE(f.name))

\* C28: the prompt of an alias's call holds one block per gathered file, in
\* gather order, tagged with the file's name and kind and holding its
\* extracted text, and a file that cannot be read never prevents the call:
\* once a coroutine with gathered files is past building its prompt, its
\* call has been issued.
C28_UnreadableFileNeverPreventsCall ==
    /\ PromptBlocksOfIssuedCalls
    /\ \A i \in DOMAIN tpc :
          BodyRan(i) /\ SupportedFiles(i) # {} /\ MaterialsReadable => calls[i] = 1

\* "Zed" is called with the block of its image before the block of its PDF.
PromptBlocksWitness ==
    \E i \in DOMAIN tpc :
        /\ units[i].original_name = E_Zed.name
        /\ calls[i] = 1
        /\ Cardinality(TagPositions(prompt[i])) = 2
        /\ prompt[i][BlockStart(prompt[i], 1)] = "\n=== SUBMISSION (IMAGE): "
        /\ prompt[i][BlockStart(prompt[i], 2)] = "\n=== SUBMISSION (PDF): "

\* The image "dan.jpeg" is called on a machine without OCR.
UnreadableImageWitness ==
    \E i \in DOMAIN tpc :
        /\ units[i].original_name = E_dan.name
        /\ ~OCR_AVAILABLE
        /\ calls[i] = 1
        /\ Contains(prompt[i], UNREADABLE_IMAGE(E_dan.name))

\* C29: once discovery has returned, no step of the run changes the list of
\* units or the contents of any normalized_dir; once the anonymization map is
\* written, no step changes it; and at every moment no two units have the
\* same normalized_dir.
C29_UnitsFrozenAfterDiscovery ==
    /\ [](\A i, j \in DOMAIN units :
             i # j => units[i].normalized_dir # units[j].normalized_dir)
    /\ [][PcRank(pc) >= 3 => units' = units /\ norm_dirs' = norm_dirs]_vars
    /\ [][PcRank(pc) >= 4 =>
             artifacts'.anonymization_map = artifacts.anonymization_map]_vars

\* A run with two units, one of them a folder of several files, went
\* through synthesis, dispatch with a call, and persistence.
C29_Witness ==
    /\ pc = "exit"
    /\ exit_code = Some(0)
    /\ Len(units) = 2
    /\ units[1].normalized_dir # units[2].normalized_dir
    /\ \E i \in DOMAIN units : Cardinality(norm_dirs[units[i].normalized_dir]) > 1
    /\ \E i \in DOMAIN units : calls[i] = 1
    /\ gen_calls = 1
    /\ artifacts.anonymization_map.written
    /\ artifacts.pregrading_results.written

\* C30: an outcome has a count above 0 only if the analysis call of that
\* alias returned; the outcome of a coroutine that ended without a returned
\* call (no supported files, an extraction or a call that raised) has both
\* counts 0, whatever words its agent_output holds.
C30_CountsOnlyFromReturnedCalls ==
    \A i \in DOMAIN result :
        /\ result[i].major > 0 \/ result[i].moderate > 0 =>
              /\ call_end[i] = "returned"
              /\ calls[i] = 1
        /\ tpc[i] = "done" /\ call_end[i] # "returned" =>
              /\ result[i].major = 0
              /\ result[i].moderate = 0

\* One call raised with a message that holds "major" and "moderate" and its
\* outcome counts 0/0; another call returned and its outcome counts findings.
C30_Witness ==
    \E i, j \in DOMAIN result :
        /\ tpc[i] = "done"
        /\ call_end[i] = "raised"
        /\ _count_severities(result[i].agent_output)[1] > 0
        /\ _count_severities(result[i].agent_output)[2] > 0
        /\ result[i].major = 0
        /\ result[i].moderate = 0
        /\ tpc[j] = "done"
        /\ call_end[j] = "returned"
        /\ result[j].major > 0

----------------------------------------------------------------------------
(* Claims about the output directory                                       *)

OutPath(inside, parts) == Some([inside |-> inside, parts |-> parts])

N_results == <<"r","e","s","u","l","t","s">>

\* The values of --out: omitted, a folder of hw_root, a folder two levels
\* below hw_root, hw_root itself, hw_root/Outputs, a folder elsewhere.
OutArgs ==
    { None,
      OutPath(TRUE, <<N_results>>),
      OutPath(TRUE, << <<"w","o","r","k">>, <<"r","u","n","1">> >>),
      OutPath(TRUE, <<>>),
      OutPath(TRUE, << <<"O","u","t","p","u","t","s">> >>),
      OutPath(FALSE, << <<"r","u","n","1">> >>) }

OutPool == { E_amy, E_Zed, E_lnk }

\* A run of main() with --out drawn as well.
InitOut ==
    /\ SevIdle
    /\ ExtIdle
    /\ AppIdle
    /\ RootIdle
    /\ GatherIdle
    /\ pc = "start"
    /\ NotStarted
    /\ out_arg \in OutArgs
    /\ \E env \in Environments :
          /\ OCR_AVAILABLE = env.ocr
          /\ ps_file = env.ps
          /\ sol_file = env.sol
          /\ class_info = env.class
          /\ \/ /\ root_ok = TRUE
                /\ max_async = 1
                /\ listing \in Listings(OutPool)
             \/ /\ env.sol # None
                /\ root_ok = FALSE
                /\ max_async = 1
                /\ listing = {}

SpecOut == InitOut /\ [][Next]_vars

\* The entry e of hw_root holds the run's output directory.
HoldsOutDir(e) == e.name \in OutTop(out_arg)

\* C31: the entry of the homework root that holds the run's output directory
\* is never among the entries taken as submissions, no unit bears its name,
\* and nothing of it is copied into a normalized_dir.
C31_OutDirNeverDiscovered ==
    /\ \A k \in DOMAIN entries : ~HoldsOutDir(entries[k])
    /\ \A k \in DOMAIN units : units[k].original_name \notin OutTop(out_arg)
    /\ \A d \in DOMAIN norm_dirs : \A f \in norm_dirs[d] :
          f.path = <<>> \/ f.path[1] \notin OutTop(out_arg)

\* The part of C31 that holds: with --out omitted, under hw_root/Outputs or
\* outside hw_root, the output directory is never taken as a submission.
OutDirSkippedWhenReservedOrOutside ==
    (\/ out_arg = None
     \/ ~out_arg[1].inside
     \/ out_arg[1].parts # <<>> /\ Lower(out_arg[1].parts[1]) = N_outputs)
        => C31_OutDirNeverDiscovered

\* With --out hw_root/results, "amy.pdf" was copied to students/001, then
\* "results" was taken as the next submission, a copy of students/001 was
\* put under students/002 and the run ended with status 1.
OutDirDiscoveredWitness ==
    /\ out_arg = OutPath(TRUE, <<N_results>>)
    /\ pc = "exit"
    /\ exit_code = Some(1)
    /\ \E k \in DOMAIN entries : entries[k].name = N_results
    /\ NormDir(<<"0","0","2">>) \in DOMAIN norm_dirs
    /\ \E f \in norm_dirs[NormDir(<<"0","0","2">>)] :
          f.path # <<>> /\ f.path[1] = N_results

----------------------------------------------------------------------------
(* Claims about the web app's requests                                     *)

\* The module globals and the stored files a request can change.
AppState ==
    <<assignment_title, uploaded_files, max_concurrent, nitpickiness_level,
      grading_notes, appdata>>

\* C32: every upload, select, clear or settings request that is answered
\* with a 4xx status leaves the assignment title, the uploaded_files lists,
\* the three settings and the stored files as they were.
C32_RejectedRequestChangesNothing ==
    [][(/\ request'.route \in {"upload", "select", "clear", "concurrency",
                               "nitpickiness", "notes"}
        /\ response'.code \in {400, 404})
       => UNCHANGED AppState]_vars

\* An upload without files was answered 400 after it selected "hw1" and
\* emptied the list of its category.
UploadWithoutFilesWitness ==
    /\ request.route = "upload"
    /\ response.code = 400
    /\ assignment_title = HW_TITLE
    /\ HW_TITLE \notin DOMAIN appdata

\* C33: the assignment title is empty or names an assignment folder that
\* exists under APPDATA_DIR.
C33_TitleNamesExistingFolder ==
    assignment_title = <<>> \/ assignment_title \in DOMAIN appdata

\* A clear request was answered 200 and pruned the folder of the selected
\* assignment.
ClearPrunedAssignmentWitness ==
    /\ request.route = "clear"
    /\ response.code = 200
    /\ assignment_title = HW2_TITLE
    /\ HW2_TITLE \notin DOMAIN appdata

\* C34: max_concurrent is an integer from 1 to 10 and nitpickiness_level an
\* integer from 1 to 5, and a settings request whose value is of another
\* type or outside the range is answered 400.
C34_SettingsAreIntegersInRange ==
    /\ max_concurrent.type = "int"
    /\ max_concurrent.v \in 1..10
    /\ nitpickiness_level.type = "int"
    /\ nitpickiness_level.v \in 1..5
    /\ (/\ request.route \in {"concurrency", "nitpickiness"}
        /\ request.value.type # "int")
       => response.code = 400

\* What holds of the settings: each is an int or a bool whose value lies in
\* the range, and a request out of the range is answered 400.
SettingsInRange ==
    /\ IsInstanceInt(max_concurrent) /\ max_concurrent.v \in 1..10
    /\ IsInstanceInt(nitpickiness_level) /\ nitpickiness_level.v \in 1..5
    /\ grading_notes.type = "str"
    /\ (request.route = "concurrency" /\ request.value.v \notin 1..10)
       => response.code = 400
    /\ (request.route = "nitpickiness" /\ request.value.v \notin 1..5)
       => response.code = 400

\* {"maxConcurrent": true} was answered 200 and max_concurrent is True.
BoolSettingWitness ==
    /\ request = Request("concurrency", BoolVal(TRUE))
    /\ response.code = 200
    /\ max_concurrent = BoolVal(TRUE)

\* The rows of summary.csv below its header: name, id, state.
GradedRows ==
    IF outputs_dir.summary = None THEN <<>> ELSE Tail(outputs_dir.summary[1])

\* The state directories that hold a note file of that id.
NoteDirs(id) == { n.state : n \in { m \in outputs_dir.notes : m.name = id \o TXT } }

\* The outcomes the pipeline returned for the submission of that name.
OutcomesFor(name) == { o \in Range(last_outcomes) : o.submission = name }

\* C35: after a grading the state recorded for every submission is done,
\* review or problem; it is review when the pipeline returned no outcome for
\* the submission, an outcome without a state or one with an unknown state;
\* and the submission's note file lies in the directory of that state and in
\* no other.
C35_RecordedStateAndNoteDir ==
    (request.route = "grade" /\ response.code = 200) =>
        \A k \in DOMAIN GradedRows :
            /\ GradedRows[k][3] \in {S_done, S_review, S_problem}
            /\ OutcomesFor(GradedRows[k][1]) = {} => GradedRows[k][3] = S_review
            /\ \A o \in OutcomesFor(GradedRows[k][1]) :
                  (\/ o.state = None
                   \/ Lower(Strip(o.state[1])) \notin {S_done, S_review, S_problem})
                  => GradedRows[k][3] = S_review
            /\ NoteDirs(GradedRows[k][2]) = { GradedRows[k][3] }

\* A grading of three submissions for which the pipeline returned an outcome
\* without a state, one with an unknown state, and none for the third.
C35_Witness ==
    /\ request.route = "grade"
    /\ response.code = 200
    /\ Len(GradedRows) = 3
    /\ Len(last_outcomes) = 2
    /\ \E o \in Range(last_outcomes) : o.state = None
    /\ \E o \in Range(last_outcomes) : o.state = Some(<<"w","e","i","r","d">>)
    /\ \A k \in DOMAIN GradedRows : NoteDirs(GradedRows[k][2]) = {S_review}

\* The *.txt files of the three state directories of an assignment's outputs
\* folder, as pairs of directory and name.
StateNotes(title) ==
    { <<n.state, n.name>> :
        n \in { m \in appdata[title].outputs.notes :
                  m.state \in {S_done, S_review, S_problem} /\ GlobTxt(m.name) } }

\* The pairs of state and note name the rows of an assignment's summary.csv
\* call for.
SummaryNotes(title) ==
    { <<appdata[title].outputs.summary[1][k][3],
        appdata[title].outputs.summary[1][k][2] \o TXT>> :
        k \in 2..Len(appdata[title].outputs.summary[1]) }

\* C36: whatever requests were made, the note files under outputs/done,
\* outputs/review and outputs/problem of an assignment are those of its
\* latest grading: one note per id of summary.csv, in the directory of the
\* row's state, and no other.
C36_NotesAreThoseOfLatestGrading ==
    \A title \in DOMAIN appdata :
        appdata[title].outputs.exists =>
            /\ appdata[title].outputs.summary # None
            /\ StateNotes(title) = SummaryNotes(title)
            /\ \A a \in SummaryNotes(title), b \in SummaryNotes(title) :
                  a[2] = b[2] => a = b

\* "hw2" was graded after its submissions were cleared: the summary has no
\* row and no note of an earlier grading is left.
C36_Witness ==
    /\ pipeline = "replaced"
    /\ request.route = "grade"
    /\ response = [code |-> 200, totalSubmissions |-> 0]
    /\ assignment_title = HW2_TITLE
    /\ HW2_TITLE \in DOMAIN appdata
    /\ appdata[HW2_TITLE].cats["submissions"] = None
    /\ appdata[HW2_TITLE].outputs.summary = Some(<<SUMMARY_HEADER>>)
    /\ StateNotes(HW2_TITLE) = {}

====
